---- MODULE Spec2Model ----
(***************************************************************************)
(* UVM variant 21: textual rows -> IR (to_ir) -> 32-bit little-endian      *)
(* words (encode_instr / assemble) -> interpreter (run_binary_bytes,       *)
(* decode_and_execute_one) on a combined word-addressable memory.          *)
(*                                                                         *)
(* Representation of Python values:                                        *)
(*  - a str is the sequence of its characters (one-character strings);     *)
(*  - an operand of an IR record (the result of int(token)) is a TLA+      *)
(*    integer, possibly negative;                                          *)
(*  - a machine value (instruction word, register, memory cell) is a       *)
(*    Python int of arbitrary precision and either sign: it is the         *)
(*    little-endian sequence of its binary digits with no leading (high)   *)
(*    zero, the digits of a negative value negated, so 0 is <<>>, 6 is     *)
(*    <<0,1,1>> and -6 is <<0,-1,-1>>.  Words with bit 31 set and powers   *)
(*    above 2^32 are therefore exact;                                      *)
(*  - a bytes object is a sequence of integers 0..255;                     *)
(*  - the register list is a function on 0..regs_count-1;                  *)
(*  - the memory list [0] * mem_size is held as its length and its         *)
(*    non-zero cells: [size |-> mem_size, cells |-> a function from the    *)
(*    addresses whose cell is not 0 to their values].                      *)
(***************************************************************************)
EXTENDS Integers, Sequences, FiniteSets, TLC

\* ------------------------------------------------------------------------
\* Arbitrary-precision integers (Python int) as digit sequences
\* ------------------------------------------------------------------------
\* An int is the sequence of its binary digits, lowest first, without
\* high-order zeros: digits 0 and 1 for a value >= 0, digits 0 and -1 for a
\* value < 0 (the digits of its magnitude, negated), so that the value of
\* v is the sum of v[i] * 2^(i-1) either way.  0 is <<>>.

Max(a, b) == IF a >= b THEN a ELSE b

Min(a, b) == IF a <= b THEN a ELSE b

\* The highest index in lo..hi at which b has a digit other than 0, or 0.
RECURSIVE TopDigit(_, _, _)
TopDigit(b, lo, hi) ==
  IF lo > hi THEN 0
  ELSE IF lo = hi THEN (IF b[lo] # 0 THEN lo ELSE 0)
  ELSE LET mid == (lo + hi) \div 2
           t   == TopDigit(b, mid + 1, hi)
       IN  IF t # 0 THEN t ELSE TopDigit(b, lo, mid)

\* The lowest index in lo..hi at which b has a digit other than 0, or 0.
RECURSIVE LowDigit(_, _, _)
LowDigit(b, lo, hi) ==
  IF lo > hi THEN 0
  ELSE IF lo = hi THEN (IF b[lo] # 0 THEN lo ELSE 0)
  ELSE LET mid == (lo + hi) \div 2
           t   == LowDigit(b, lo, mid)
       IN  IF t # 0 THEN t ELSE LowDigit(b, mid + 1, hi)

\* Canonical form: drop the high-order zero digits.
Norm(b) ==
  IF b = <<>> THEN <<>>
  ELSE IF b[Len(b)] # 0 THEN b
  ELSE SubSeq(b, 1, TopDigit(b, 1, Len(b)))

\* v < 0
IsNeg(v) == v # <<>> /\ v[Len(v)] < 0

\* abs(v)
Abs(v) == [i \in 1..Len(v) |-> IF v[i] = 0 THEN 0 ELSE 1]

\* -v
Negate(v) == [i \in 1..Len(v) |-> 0 - v[i]]

\* The Python int n >= 0 given as a TLA+ integer.
RECURSIVE NatToBits(_)
NatToBits(n) ==
  IF n = 0 THEN <<>> ELSE <<n % 2>> \o NatToBits(n \div 2)

\* The TLA+ integer of a value of at most 31 binary digits.
RECURSIVE BitsToNat(_)
BitsToNat(b) ==
  IF b = <<>> THEN 0 ELSE b[1] + 2 * BitsToNat(Tail(b))

\* Digit i of b (0 beyond its length).
BitAt(b, i) == IF i <= Len(b) THEN b[i] ELSE 0

\* a with its digits below k set to low, digit k inverted, the rest kept.
FlipAt(a, k, low) ==
  [i \in 1..Len(a) |-> IF i < k THEN low ELSE IF i = k THEN 1 - a[i] ELSE a[i]]

\* a + 1 for a >= 0, given the index k of the lowest 0 digit of a (0 when
\* a has none).
IncAt(a, k) ==
  IF k = 0 THEN [i \in 1..Len(a) |-> 0] \o <<1>> ELSE FlipAt(a, k, 0)

\* a + 1 for a >= 0.
Inc(a) == IncAt(a, LowDigit([i \in 1..Len(a) |-> 1 - a[i]], 1, Len(a)))

\* a - 1 for a > 0: the lowest 1 digit becomes 0, the 0 digits below it 1.
Dec(a) == Norm(FlipAt(a, LowDigit(a, 1, Len(a)), 1))

\* The digits lo..hi (from 1) of d, each inverted when inv is 1.
Window(d, lo, hi, inv) ==
  [i \in 1..(hi - lo + 1) |->
     IF inv = 1 THEN 1 - BitAt(d, lo + i - 1) ELSE BitAt(d, lo + i - 1)]

\* The digits lo..hi (from 1) of the two's complement of v, which is what
\* Python's & and >> see of an int: the digits of v >= 0, the inverted
\* digits of -v - 1 for v < 0.
TwosDigits(v, lo, hi) ==
  IF IsNeg(v) THEN Window(Dec(Abs(v)), lo, hi, 1) ELSE Window(v, lo, hi, 0)

\* The digit-wise product of two digit sequences over {0, 1}.
AndDigits(a, b) == Norm([i \in 1..Min(Len(a), Len(b)) |-> a[i] * b[i]])

\* Python a & b for an int a and b >= 0 (a mask).
BitAnd(a, b) ==
  AndDigits(IF IsNeg(a) THEN TwosDigits(a, 1, Len(b)) ELSE a, b)

\* Python a | b on non-negative ints.
BitOr(a, b) ==
  [i \in 1..Max(Len(a), Len(b)) |-> Max(BitAt(a, i), BitAt(b, i))]

\* Python a << s for s >= 0.
ShiftLeft(a, s) == IF a = <<>> THEN <<>> ELSE [i \in 1..s |-> 0] \o a

\* a without its s lowest digits.
DropLow(a, s) == SubSeq(a, s + 1, Len(a))

\* Python a >> s for s >= 0: the floor of a / 2^s, which for a < 0 is
\* -(((-a - 1) >> s) + 1).
ShiftRight(a, s) ==
  IF IsNeg(a) THEN Negate(Inc(DropLow(Dec(Abs(a)), s))) ELSE DropLow(a, s)

\* Digit i (from 0) of the two's complement of the TLA+ integer v, which is
\* what Python's & sees of a possibly negative int.
IntBit(v, i) ==
  IF i <= 30 THEN (v \div (2 ^ i)) % 2 ELSE IF v < 0 THEN 1 ELSE 0

\* Python v & m for an int v (any sign) and a non-negative m.
IntAnd(v, m) == Norm([i \in 1..Len(m) |-> IntBit(v, i - 1) * m[i]])

\* The sum s of two digits and a carry, as its digit and its carry out.
FullAdd(s) == <<s % 2, s \div 2>>

\* Digits lo..hi of a + b + c for a, b >= 0 and a carry c, followed by the
\* carry out: the lower half, then the upper half with the carry of the
\* lower.
RECURSIVE AddSlice(_, _, _, _, _)
RECURSIVE AddUpper(_, _, _, _, _)
AddSlice(a, b, c, lo, hi) ==
  IF lo > hi THEN <<c>>
  ELSE IF lo = hi THEN FullAdd(BitAt(a, lo) + BitAt(b, lo) + c)
  ELSE AddUpper(a, b, AddSlice(a, b, c, lo, (lo + hi) \div 2),
                ((lo + hi) \div 2) + 1, hi)

\* low, the digits below lo followed by their carry, continued by the
\* digits lo..hi.
AddUpper(a, b, low, lo, hi) ==
  SubSeq(low, 1, Len(low) - 1) \o AddSlice(a, b, low[Len(low)], lo, hi)

\* a + b for a, b >= 0.
AddNat(a, b) ==
  IF a = <<>> THEN b
  ELSE IF b = <<>> THEN a
  ELSE Norm(AddSlice(a, b, 0, 1, Max(Len(a), Len(b))))

\* a plus the complement of b on n digits, plus 1: the n digits of
\* a - b mod 2^n, followed by a carry that is 1 exactly when a >= b.
DiffDigits(a, b, n) ==
  AddSlice(a, [i \in 1..n |-> 1 - BitAt(b, i)], 1, 1, n)

\* The difference whose digits and carry are d when the carry is 1, minus
\* the one whose digits are e otherwise.
DiffValue(d, e, n) ==
  IF d[n + 1] = 1 THEN Norm(SubSeq(d, 1, n)) ELSE Negate(Norm(SubSeq(e, 1, n)))

\* a - b for a, b >= 0, of either sign.
SubNat(a, b) ==
  DiffValue(DiffDigits(a, b, Max(Len(a), Len(b))),
            DiffDigits(b, a, Max(Len(a), Len(b))),
            Max(Len(a), Len(b)))

\* Python a + b.
Add(a, b) ==
  IF ~IsNeg(a) /\ ~IsNeg(b) THEN AddNat(a, b)
  ELSE IF IsNeg(a) /\ IsNeg(b) THEN Negate(AddNat(Abs(a), Abs(b)))
  ELSE SubNat(IF IsNeg(a) THEN b ELSE a, Abs(IF IsNeg(a) THEN a ELSE b))

\* The sum of a * 2^(i - lo) over the digits lo..hi of b that are 1, for
\* a, b >= 0.
RECURSIVE MulSlice(_, _, _, _)
MulSlice(a, b, lo, hi) ==
  IF lo > hi THEN <<>>
  ELSE IF lo = hi THEN (IF b[lo] = 1 THEN a ELSE <<>>)
  ELSE AddNat(MulSlice(a, b, lo, (lo + hi) \div 2),
              ShiftLeft(MulSlice(a, b, ((lo + hi) \div 2) + 1, hi),
                        ((lo + hi) \div 2) + 1 - lo))

\* a * b for a, b >= 0.
MulNat(a, b) == IF a = <<>> THEN <<>> ELSE MulSlice(a, b, 1, Len(b))

\* Python a * b.
Mul(a, b) ==
  IF IsNeg(a) = IsNeg(b) THEN MulNat(Abs(a), Abs(b))
  ELSE Negate(MulNat(Abs(a), Abs(b)))

\* h * h, times a when n is odd.
PowStep(h, a, n) ==
  IF n % 2 = 1 THEN MulNat(MulNat(h, h), a) ELSE MulNat(h, h)

\* a ** n for a >= 0 and n >= 0 given as a TLA+ integer, by squaring
\* (0 ** 0 is 1).
RECURSIVE PowNat(_, _)
PowNat(a, n) ==
  IF n = 0 THEN <<1>> ELSE PowStep(PowNat(a, n \div 2), a, n)

\* Python a < n for an int a >= 0 and a TLA+ integer n in 0..2^31-1.
LessThanInt(a, n) == Len(a) <= 31 /\ BitsToNat(a) < n

\* a has more than k decimal digits (a >= 10^k), for a >= 0.  With fewer
\* than 3k + 1 binary digits a < 8^k, with more than 4k a >= 16^k;
\* otherwise 10^k = 5^k * 2^k is compared.
MoreDigitsThan(a, k) ==
  IF Len(a) <= 3 * k THEN FALSE
  ELSE IF Len(a) > 4 * k THEN TRUE
  ELSE ~IsNeg(SubNat(DropLow(a, k), PowNat(<<1, 0, 1>>, k)))

\* ------------------------------------------------------------------------
\* src/utils.py
\* ------------------------------------------------------------------------

\* Mutant: 1 << n - 1, which Python reads as 1 << (n - 1).
mask_precedence(n) == [i \in 1..n |-> IF i = n THEN 1 ELSE 0]

\* mask(n) = (1 << n) - 1 : n one digits.
mask(n) == [i \in 1..n |-> 1]

\* 0xFFFFFFFF
WordBits == 32

\* Mutant: the field is shifted by its width instead of its offset.
RECURSIVE pack_loop_shift_width(_, _)
pack_loop_shift_width(pairs, val) ==
  IF pairs = <<>> THEN val
  ELSE LET v     == Head(pairs)[1]
           width == Head(pairs)[3]
       IN  pack_loop_shift_width(
             Tail(pairs),
             BitOr(val, ShiftLeft(IntAnd(v, mask(width)), width)))

\* Mutant: the value is not cut to its width before it is shifted (the
\* digits above bit 31 are dropped by pack_fields either way).
RECURSIVE pack_loop_no_mask(_, _)
pack_loop_no_mask(pairs, val) ==
  IF pairs = <<>> THEN val
  ELSE LET v     == Head(pairs)[1]
           start == Head(pairs)[2]
       IN  pack_loop_no_mask(
             Tail(pairs),
             BitOr(val, ShiftLeft(IntAnd(v, mask(WordBits)), start)))

\* Mutant: each field replaces the word built so far.
RECURSIVE pack_loop_overwrite(_, _)
pack_loop_overwrite(pairs, val) ==
  IF pairs = <<>> THEN val
  ELSE LET v     == Head(pairs)[1]
           start == Head(pairs)[2]
           width == Head(pairs)[3]
       IN  pack_loop_overwrite(Tail(pairs),
                               ShiftLeft(IntAnd(v, mask(width)), start))

RECURSIVE pack_loop(_, _)
pack_loop(pairs, val) ==
  IF pairs = <<>> THEN val
  ELSE LET v     == Head(pairs)[1]
           start == Head(pairs)[2]
           width == Head(pairs)[3]
       IN  pack_loop(Tail(pairs),
                     BitOr(val, ShiftLeft(IntAnd(v, mask(width)), start)))

pack_fields(pairs) == BitAnd(pack_loop(pairs, <<>>), mask(WordBits))

unpack_field(cmd, start, width) == BitAnd(ShiftRight(cmd, start), mask(width))

\* ------------------------------------------------------------------------
\* Python str operations used by the translator (a str is a sequence of
\* one-character strings)
\* ------------------------------------------------------------------------

LowerCase ==
  <<"a","b","c","d","e","f","g","h","i","j","k","l","m",
    "n","o","p","q","r","s","t","u","v","w","x","y","z">>

UpperCase ==
  <<"A","B","C","D","E","F","G","H","I","J","K","L","M",
    "N","O","P","Q","R","S","T","U","V","W","X","Y","Z">>

DigitChars == <<"0","1","2","3","4","5","6","7","8","9">>

IndexOf(seq, c) == CHOOSE i \in 1..Len(seq) : seq[i] = c

IsIn(seq, c) == \E i \in 1..Len(seq) : seq[i] = c

\* The characters outside ASCII that str.upper() changes, each with the
\* characters it becomes (one to three).  A character the TLA+ lexer does
\* not take in a string is written by its code point, "U+017F".
NonAsciiUpper ==
  {    <<"µ", <<"Μ">>>>, <<"ß", <<"S", "S">>>>, <<"à", <<"À">>>>,
    <<"á", <<"Á">>>>, <<"â", <<"Â">>>>, <<"ã", <<"Ã">>>>, <<"ä", <<"Ä">>>>,
    <<"å", <<"Å">>>>, <<"æ", <<"Æ">>>>, <<"ç", <<"Ç">>>>, <<"è", <<"È">>>>,
    <<"é", <<"É">>>>, <<"ê", <<"Ê">>>>, <<"ë", <<"Ë">>>>, <<"ì", <<"Ì">>>>,
    <<"í", <<"Í">>>>, <<"î", <<"Î">>>>, <<"ï", <<"Ï">>>>, <<"ð", <<"Ð">>>>,
    <<"ñ", <<"Ñ">>>>, <<"ò", <<"Ò">>>>, <<"ó", <<"Ó">>>>, <<"ô", <<"Ô">>>>,
    <<"õ", <<"Õ">>>>, <<"ö", <<"Ö">>>>, <<"ø", <<"Ø">>>>, <<"ù", <<"Ù">>>>,
    <<"ú", <<"Ú">>>>, <<"û", <<"Û">>>>, <<"ü", <<"Ü">>>>, <<"ý", <<"Ý">>>>,
    <<"þ", <<"Þ">>>>, <<"ÿ", <<"U+0178">>>>, <<"U+0101", <<"U+0100">>>>,
    <<"U+0103", <<"U+0102">>>>, <<"U+0105", <<"U+0104">>>>,
    <<"U+0107", <<"U+0106">>>>, <<"U+0109", <<"U+0108">>>>,
    <<"U+010B", <<"U+010A">>>>, <<"U+010D", <<"U+010C">>>>,
    <<"U+010F", <<"U+010E">>>>, <<"U+0111", <<"U+0110">>>>,
    <<"U+0113", <<"U+0112">>>>, <<"U+0115", <<"U+0114">>>>,
    <<"U+0117", <<"U+0116">>>>, <<"U+0119", <<"U+0118">>>>,
    <<"U+011B", <<"U+011A">>>>, <<"U+011D", <<"U+011C">>>>,
    <<"U+011F", <<"U+011E">>>>, <<"U+0121", <<"U+0120">>>>,
    <<"U+0123", <<"U+0122">>>>, <<"U+0125", <<"U+0124">>>>,
    <<"U+0127", <<"U+0126">>>>, <<"U+0129", <<"U+0128">>>>,
    <<"U+012B", <<"U+012A">>>>, <<"U+012D", <<"U+012C">>>>,
    <<"U+012F", <<"U+012E">>>>, <<"U+0131", <<"I">>>>,
    <<"U+0133", <<"U+0132">>>>, <<"U+0135", <<"U+0134">>>>,
    <<"U+0137", <<"U+0136">>>>, <<"U+013A", <<"U+0139">>>>,
    <<"U+013C", <<"U+013B">>>>, <<"U+013E", <<"U+013D">>>>,
    <<"U+0140", <<"U+013F">>>>, <<"U+0142", <<"U+0141">>>>,
    <<"U+0144", <<"U+0143">>>>, <<"U+0146", <<"U+0145">>>>,
    <<"U+0148", <<"U+0147">>>>, <<"U+0149", <<"ʼ", "N">>>>,
    <<"U+014B", <<"U+014A">>>>, <<"U+014D", <<"U+014C">>>>,
    <<"U+014F", <<"U+014E">>>>, <<"U+0151", <<"U+0150">>>>,
    <<"U+0153", <<"U+0152">>>>, <<"U+0155", <<"U+0154">>>>,
    <<"U+0157", <<"U+0156">>>>, <<"U+0159", <<"U+0158">>>>,
    <<"U+015B", <<"U+015A">>>>, <<"U+015D", <<"U+015C">>>>,
    <<"U+015F", <<"U+015E">>>>, <<"U+0161", <<"U+0160">>>>,
    <<"U+0163", <<"U+0162">>>>, <<"U+0165", <<"U+0164">>>>,
    <<"U+0167", <<"U+0166">>>>, <<"U+0169", <<"U+0168">>>>,
    <<"U+016B", <<"U+016A">>>>, <<"U+016D", <<"U+016C">>>>,
    <<"U+016F", <<"U+016E">>>>, <<"U+0171", <<"U+0170">>>>,
    <<"U+0173", <<"U+0172">>>>, <<"U+0175", <<"U+0174">>>>,
    <<"U+0177", <<"U+0176">>>>, <<"U+017A", <<"U+0179">>>>,
    <<"U+017C", <<"U+017B">>>>, <<"U+017E", <<"U+017D">>>>,
    <<"U+017F", <<"S">>>>, <<"ƀ", <<"U+0243">>>>, <<"ƃ", <<"Ƃ">>>>,
    <<"ƅ", <<"Ƅ">>>>, <<"ƈ", <<"Ƈ">>>>, <<"ƌ", <<"Ƌ">>>>, <<"ƒ", <<"Ƒ">>>>,
    <<"ƕ", <<"Ƕ">>>>, <<"ƙ", <<"Ƙ">>>>, <<"ƚ", <<"U+023D">>>>,
    <<"ƞ", <<"U+0220">>>>, <<"ơ", <<"Ơ">>>>, <<"ƣ", <<"Ƣ">>>>,
    <<"ƥ", <<"Ƥ">>>>, <<"ƨ", <<"Ƨ">>>>, <<"ƭ", <<"Ƭ">>>>, <<"ư", <<"Ư">>>>,
    <<"ƴ", <<"Ƴ">>>>, <<"ƶ", <<"Ƶ">>>>, <<"ƹ", <<"Ƹ">>>>, <<"ƽ", <<"Ƽ">>>>,
    <<"ƿ", <<"Ƿ">>>>, <<"ǅ", <<"Ǆ">>>>, <<"ǆ", <<"Ǆ">>>>, <<"ǈ", <<"Ǉ">>>>,
    <<"ǉ", <<"Ǉ">>>>, <<"ǋ", <<"Ǌ">>>>, <<"ǌ", <<"Ǌ">>>>, <<"ǎ", <<"Ǎ">>>>,
    <<"ǐ", <<"Ǐ">>>>, <<"ǒ", <<"Ǒ">>>>, <<"ǔ", <<"Ǔ">>>>, <<"ǖ", <<"Ǖ">>>>,
    <<"ǘ", <<"Ǘ">>>>, <<"ǚ", <<"Ǚ">>>>, <<"ǜ", <<"Ǜ">>>>, <<"ǝ", <<"Ǝ">>>>,
    <<"ǟ", <<"Ǟ">>>>, <<"ǡ", <<"Ǡ">>>>, <<"ǣ", <<"Ǣ">>>>, <<"ǥ", <<"Ǥ">>>>,
    <<"ǧ", <<"Ǧ">>>>, <<"ǩ", <<"Ǩ">>>>, <<"ǫ", <<"Ǫ">>>>, <<"ǭ", <<"Ǭ">>>>,
    <<"ǯ", <<"Ǯ">>>>, <<"ǰ", <<"J", "U+030C">>>>, <<"ǲ", <<"Ǳ">>>>,
    <<"ǳ", <<"Ǳ">>>>, <<"ǵ", <<"Ǵ">>>>, <<"ǹ", <<"Ǹ">>>>, <<"ǻ", <<"Ǻ">>>>,
    <<"ǽ", <<"Ǽ">>>>, <<"ǿ", <<"Ǿ">>>>, <<"U+0201", <<"U+0200">>>>,
    <<"U+0203", <<"U+0202">>>>, <<"U+0205", <<"U+0204">>>>,
    <<"U+0207", <<"U+0206">>>>, <<"U+0209", <<"U+0208">>>>,
    <<"U+020B", <<"U+020A">>>>, <<"U+020D", <<"U+020C">>>>,
    <<"U+020F", <<"U+020E">>>>, <<"U+0211", <<"U+0210">>>>,
    <<"U+0213", <<"U+0212">>>>, <<"U+0215", <<"U+0214">>>>,
    <<"U+0217", <<"U+0216">>>>, <<"U+0219", <<"U+0218">>>>,
    <<"U+021B", <<"U+021A">>>>, <<"U+021D", <<"U+021C">>>>,
    <<"U+021F", <<"U+021E">>>>, <<"U+0223", <<"U+0222">>>>,
    <<"U+0225", <<"U+0224">>>>, <<"U+0227", <<"U+0226">>>>,
    <<"U+0229", <<"U+0228">>>>, <<"U+022B", <<"U+022A">>>>,
    <<"U+022D", <<"U+022C">>>>, <<"U+022F", <<"U+022E">>>>,
    <<"U+0231", <<"U+0230">>>>, <<"U+0233", <<"U+0232">>>>,
    <<"U+023C", <<"U+023B">>>>, <<"U+023F", <<"U+2C7E">>>>,
    <<"U+0240", <<"U+2C7F">>>>, <<"U+0242", <<"U+0241">>>>,
    <<"U+0247", <<"U+0246">>>>, <<"U+0249", <<"U+0248">>>>,
    <<"U+024B", <<"U+024A">>>>, <<"U+024D", <<"U+024C">>>>,
    <<"U+024F", <<"U+024E">>>>, <<"U+0250", <<"U+2C6F">>>>,
    <<"U+0251", <<"U+2C6D">>>>, <<"U+0252", <<"U+2C70">>>>,
    <<"U+0253", <<"Ɓ">>>>, <<"U+0254", <<"Ɔ">>>>, <<"U+0256", <<"Ɖ">>>>,
    <<"U+0257", <<"Ɗ">>>>, <<"U+0259", <<"Ə">>>>, <<"U+025B", <<"Ɛ">>>>,
    <<"U+025C", <<"Ɜ">>>>, <<"U+0260", <<"Ɠ">>>>, <<"U+0261", <<"Ɡ">>>>,
    <<"U+0263", <<"Ɣ">>>>, <<"U+0265", <<"Ɥ">>>>, <<"U+0266", <<"Ɦ">>>>,
    <<"U+0268", <<"Ɨ">>>>, <<"U+0269", <<"Ɩ">>>>, <<"U+026A", <<"Ɪ">>>>,
    <<"U+026B", <<"U+2C62">>>>, <<"U+026C", <<"Ɬ">>>>,
    <<"U+026F", <<"Ɯ">>>>, <<"U+0271", <<"U+2C6E">>>>,
    <<"U+0272", <<"Ɲ">>>>, <<"U+0275", <<"Ɵ">>>>,
    <<"U+027D", <<"U+2C64">>>>, <<"ʀ", <<"Ʀ">>>>, <<"ʂ", <<"Ʂ">>>>,
    <<"ʃ", <<"Ʃ">>>>, <<"ʇ", <<"Ʇ">>>>, <<"ʈ", <<"Ʈ">>>>,
    <<"ʉ", <<"U+0244">>>>, <<"ʊ", <<"Ʊ">>>>, <<"ʋ", <<"Ʋ">>>>,
    <<"ʌ", <<"U+0245">>>>, <<"ʒ", <<"Ʒ">>>>, <<"ʝ", <<"Ʝ">>>>,
    <<"ʞ", <<"Ʞ">>>>, <<"U+0345", <<"Ι">>>>, <<"U+0371", <<"U+0370">>>>,
    <<"U+0373", <<"U+0372">>>>, <<"U+0377", <<"U+0376">>>>,
    <<"U+037B", <<"Ͻ">>>>, <<"U+037C", <<"Ͼ">>>>, <<"U+037D", <<"Ͽ">>>>,
    <<"ΐ", <<"Ι", "U+0308", "U+0301">>>>, <<"ά", <<"Ά">>>>,
    <<"έ", <<"Έ">>>>, <<"ή", <<"Ή">>>>, <<"ί", <<"Ί">>>>,
    <<"ΰ", <<"Υ", "U+0308", "U+0301">>>>, <<"α", <<"Α">>>>,
    <<"β", <<"Β">>>>, <<"γ", <<"Γ">>>>, <<"δ", <<"Δ">>>>, <<"ε", <<"Ε">>>>,
    <<"ζ", <<"Ζ">>>>, <<"η", <<"Η">>>>, <<"θ", <<"Θ">>>>, <<"ι", <<"Ι">>>>,
    <<"κ", <<"Κ">>>>, <<"λ", <<"Λ">>>>, <<"μ", <<"Μ">>>>, <<"ν", <<"Ν">>>>,
    <<"ξ", <<"Ξ">>>>, <<"ο", <<"Ο">>>>, <<"π", <<"Π">>>>, <<"ρ", <<"Ρ">>>>,
    <<"ς", <<"Σ">>>>, <<"σ", <<"Σ">>>>, <<"τ", <<"Τ">>>>, <<"υ", <<"Υ">>>>,
    <<"φ", <<"Φ">>>>, <<"χ", <<"Χ">>>>, <<"ψ", <<"Ψ">>>>, <<"ω", <<"Ω">>>>,
    <<"ϊ", <<"Ϊ">>>>, <<"ϋ", <<"Ϋ">>>>, <<"ό", <<"Ό">>>>, <<"ύ", <<"Ύ">>>>,
    <<"ώ", <<"Ώ">>>>, <<"ϐ", <<"Β">>>>, <<"ϑ", <<"Θ">>>>, <<"ϕ", <<"Φ">>>>,
    <<"ϖ", <<"Π">>>>, <<"ϗ", <<"Ϗ">>>>, <<"ϙ", <<"Ϙ">>>>, <<"ϛ", <<"Ϛ">>>>,
    <<"ϝ", <<"Ϝ">>>>, <<"ϟ", <<"Ϟ">>>>, <<"ϡ", <<"Ϡ">>>>, <<"ϣ", <<"Ϣ">>>>,
    <<"ϥ", <<"Ϥ">>>>, <<"ϧ", <<"Ϧ">>>>, <<"ϩ", <<"Ϩ">>>>, <<"ϫ", <<"Ϫ">>>>,
    <<"ϭ", <<"Ϭ">>>>, <<"ϯ", <<"Ϯ">>>>, <<"ϰ", <<"Κ">>>>, <<"ϱ", <<"Ρ">>>>,
    <<"ϲ", <<"Ϲ">>>>, <<"ϳ", <<"U+037F">>>>, <<"ϵ", <<"Ε">>>>,
    <<"ϸ", <<"Ϸ">>>>, <<"ϻ", <<"Ϻ">>>>, <<"U+0430", <<"U+0410">>>>,
    <<"U+0431", <<"U+0411">>>>, <<"U+0432", <<"U+0412">>>>,
    <<"U+0433", <<"U+0413">>>>, <<"U+0434", <<"U+0414">>>>,
    <<"U+0435", <<"U+0415">>>>, <<"U+0436", <<"U+0416">>>>,
    <<"U+0437", <<"U+0417">>>>, <<"U+0438", <<"U+0418">>>>,
    <<"U+0439", <<"U+0419">>>>, <<"U+043A", <<"U+041A">>>>,
    <<"U+043B", <<"U+041B">>>>, <<"U+043C", <<"U+041C">>>>,
    <<"U+043D", <<"U+041D">>>>, <<"U+043E", <<"U+041E">>>>,
    <<"U+043F", <<"U+041F">>>>, <<"U+0440", <<"U+0420">>>>,
    <<"U+0441", <<"U+0421">>>>, <<"U+0442", <<"U+0422">>>>,
    <<"U+0443", <<"U+0423">>>>, <<"U+0444", <<"U+0424">>>>,
    <<"U+0445", <<"U+0425">>>>, <<"U+0446", <<"U+0426">>>>,
    <<"U+0447", <<"U+0427">>>>, <<"U+0448", <<"U+0428">>>>,
    <<"U+0449", <<"U+0429">>>>, <<"U+044A", <<"U+042A">>>>,
    <<"U+044B", <<"U+042B">>>>, <<"U+044C", <<"U+042C">>>>,
    <<"U+044D", <<"U+042D">>>>, <<"U+044E", <<"U+042E">>>>,
    <<"U+044F", <<"U+042F">>>>, <<"U+0450", <<"U+0400">>>>,
    <<"U+0451", <<"U+0401">>>>, <<"U+0452", <<"U+0402">>>>,
    <<"U+0453", <<"U+0403">>>>, <<"U+0454", <<"U+0404">>>>,
    <<"U+0455", <<"U+0405">>>>, <<"U+0456", <<"U+0406">>>>,
    <<"U+0457", <<"U+0407">>>>, <<"U+0458", <<"U+0408">>>>,
    <<"U+0459", <<"U+0409">>>>, <<"U+045A", <<"U+040A">>>>,
    <<"U+045B", <<"U+040B">>>>, <<"U+045C", <<"U+040C">>>>,
    <<"U+045D", <<"U+040D">>>>, <<"U+045E", <<"U+040E">>>>,
    <<"U+045F", <<"U+040F">>>>, <<"U+0461", <<"U+0460">>>>,
    <<"U+0463", <<"U+0462">>>>, <<"U+0465", <<"U+0464">>>>,
    <<"U+0467", <<"U+0466">>>>, <<"U+0469", <<"U+0468">>>>,
    <<"U+046B", <<"U+046A">>>>, <<"U+046D", <<"U+046C">>>>,
    <<"U+046F", <<"U+046E">>>>, <<"U+0471", <<"U+0470">>>>,
    <<"U+0473", <<"U+0472">>>>, <<"U+0475", <<"U+0474">>>>,
    <<"U+0477", <<"U+0476">>>>, <<"U+0479", <<"U+0478">>>>,
    <<"U+047B", <<"U+047A">>>>, <<"U+047D", <<"U+047C">>>>,
    <<"U+047F", <<"U+047E">>>>, <<"ҁ", <<"Ҁ">>>>, <<"ҋ", <<"Ҋ">>>>,
    <<"ҍ", <<"Ҍ">>>>, <<"ҏ", <<"Ҏ">>>>, <<"ґ", <<"Ґ">>>>, <<"ғ", <<"Ғ">>>>,
    <<"ҕ", <<"Ҕ">>>>, <<"җ", <<"Җ">>>>, <<"ҙ", <<"Ҙ">>>>, <<"қ", <<"Қ">>>>,
    <<"ҝ", <<"Ҝ">>>>, <<"ҟ", <<"Ҟ">>>>, <<"ҡ", <<"Ҡ">>>>, <<"ң", <<"Ң">>>>,
    <<"ҥ", <<"Ҥ">>>>, <<"ҧ", <<"Ҧ">>>>, <<"ҩ", <<"Ҩ">>>>, <<"ҫ", <<"Ҫ">>>>,
    <<"ҭ", <<"Ҭ">>>>, <<"ү", <<"Ү">>>>, <<"ұ", <<"Ұ">>>>, <<"ҳ", <<"Ҳ">>>>,
    <<"ҵ", <<"Ҵ">>>>, <<"ҷ", <<"Ҷ">>>>, <<"ҹ", <<"Ҹ">>>>, <<"һ", <<"Һ">>>>,
    <<"ҽ", <<"Ҽ">>>>, <<"ҿ", <<"Ҿ">>>>, <<"ӂ", <<"Ӂ">>>>, <<"ӄ", <<"Ӄ">>>>,
    <<"ӆ", <<"Ӆ">>>>, <<"ӈ", <<"Ӈ">>>>, <<"ӊ", <<"Ӊ">>>>, <<"ӌ", <<"Ӌ">>>>,
    <<"ӎ", <<"Ӎ">>>>, <<"ӏ", <<"Ӏ">>>>, <<"ӑ", <<"Ӑ">>>>, <<"ӓ", <<"Ӓ">>>>,
    <<"ӕ", <<"Ӕ">>>>, <<"ӗ", <<"Ӗ">>>>, <<"ә", <<"Ә">>>>, <<"ӛ", <<"Ӛ">>>>,
    <<"ӝ", <<"Ӝ">>>>, <<"ӟ", <<"Ӟ">>>>, <<"ӡ", <<"Ӡ">>>>, <<"ӣ", <<"Ӣ">>>>,
    <<"ӥ", <<"Ӥ">>>>, <<"ӧ", <<"Ӧ">>>>, <<"ө", <<"Ө">>>>, <<"ӫ", <<"Ӫ">>>>,
    <<"ӭ", <<"Ӭ">>>>, <<"ӯ", <<"Ӯ">>>>, <<"ӱ", <<"Ӱ">>>>, <<"ӳ", <<"Ӳ">>>>,
    <<"ӵ", <<"Ӵ">>>>, <<"ӷ", <<"Ӷ">>>>, <<"ӹ", <<"Ӹ">>>>, <<"ӻ", <<"Ӻ">>>>,
    <<"ӽ", <<"Ӽ">>>>, <<"ӿ", <<"Ӿ">>>>, <<"U+0501", <<"U+0500">>>>,
    <<"U+0503", <<"U+0502">>>>, <<"U+0505", <<"U+0504">>>>,
    <<"U+0507", <<"U+0506">>>>, <<"U+0509", <<"U+0508">>>>,
    <<"U+050B", <<"U+050A">>>>, <<"U+050D", <<"U+050C">>>>,
    <<"U+050F", <<"U+050E">>>>, <<"U+0511", <<"U+0510">>>>,
    <<"U+0513", <<"U+0512">>>>, <<"U+0515", <<"U+0514">>>>,
    <<"U+0517", <<"U+0516">>>>, <<"U+0519", <<"U+0518">>>>,
    <<"U+051B", <<"U+051A">>>>, <<"U+051D", <<"U+051C">>>>,
    <<"U+051F", <<"U+051E">>>>, <<"U+0521", <<"U+0520">>>>,
    <<"U+0523", <<"U+0522">>>>, <<"U+0525", <<"U+0524">>>>,
    <<"U+0527", <<"U+0526">>>>, <<"U+0529", <<"U+0528">>>>,
    <<"U+052B", <<"U+052A">>>>, <<"U+052D", <<"U+052C">>>>,
    <<"U+052F", <<"U+052E">>>>, <<"U+0561", <<"U+0531">>>>,
    <<"U+0562", <<"U+0532">>>>, <<"U+0563", <<"U+0533">>>>,
    <<"U+0564", <<"U+0534">>>>, <<"U+0565", <<"U+0535">>>>,
    <<"U+0566", <<"U+0536">>>>, <<"U+0567", <<"U+0537">>>>,
    <<"U+0568", <<"U+0538">>>>, <<"U+0569", <<"U+0539">>>>,
    <<"U+056A", <<"U+053A">>>>, <<"U+056B", <<"U+053B">>>>,
    <<"U+056C", <<"U+053C">>>>, <<"U+056D", <<"U+053D">>>>,
    <<"U+056E", <<"U+053E">>>>, <<"U+056F", <<"U+053F">>>>,
    <<"U+0570", <<"U+0540">>>>, <<"U+0571", <<"U+0541">>>>,
    <<"U+0572", <<"U+0542">>>>, <<"U+0573", <<"U+0543">>>>,
    <<"U+0574", <<"U+0544">>>>, <<"U+0575", <<"U+0545">>>>,
    <<"U+0576", <<"U+0546">>>>, <<"U+0577", <<"U+0547">>>>,
    <<"U+0578", <<"U+0548">>>>, <<"U+0579", <<"U+0549">>>>,
    <<"U+057A", <<"U+054A">>>>, <<"U+057B", <<"U+054B">>>>,
    <<"U+057C", <<"U+054C">>>>, <<"U+057D", <<"U+054D">>>>,
    <<"U+057E", <<"U+054E">>>>, <<"U+057F", <<"U+054F">>>>,
    <<"ր", <<"U+0550">>>>, <<"ց", <<"U+0551">>>>, <<"ւ", <<"U+0552">>>>,
    <<"փ", <<"U+0553">>>>, <<"ք", <<"U+0554">>>>, <<"օ", <<"U+0555">>>>,
    <<"ֆ", <<"U+0556">>>>, <<"և", <<"U+0535", "U+0552">>>>,
    <<"ა", <<"Ა">>>>, <<"ბ", <<"Ბ">>>>, <<"გ", <<"Გ">>>>, <<"დ", <<"Დ">>>>,
    <<"ე", <<"Ე">>>>, <<"ვ", <<"Ვ">>>>, <<"ზ", <<"Ზ">>>>, <<"თ", <<"Თ">>>>,
    <<"ი", <<"Ი">>>>, <<"კ", <<"Კ">>>>, <<"ლ", <<"Ლ">>>>, <<"მ", <<"Მ">>>>,
    <<"ნ", <<"Ნ">>>>, <<"ო", <<"Ო">>>>, <<"პ", <<"Პ">>>>, <<"ჟ", <<"Ჟ">>>>,
    <<"რ", <<"Რ">>>>, <<"ს", <<"Ს">>>>, <<"ტ", <<"Ტ">>>>, <<"უ", <<"Უ">>>>,
    <<"ფ", <<"Ფ">>>>, <<"ქ", <<"Ქ">>>>, <<"ღ", <<"Ღ">>>>, <<"ყ", <<"Ყ">>>>,
    <<"შ", <<"Შ">>>>, <<"ჩ", <<"Ჩ">>>>, <<"ც", <<"Ც">>>>, <<"ძ", <<"Ძ">>>>,
    <<"წ", <<"Წ">>>>, <<"ჭ", <<"Ჭ">>>>, <<"ხ", <<"Ხ">>>>, <<"ჯ", <<"Ჯ">>>>,
    <<"ჰ", <<"Ჰ">>>>, <<"ჱ", <<"Ჱ">>>>, <<"ჲ", <<"Ჲ">>>>, <<"ჳ", <<"Ჳ">>>>,
    <<"ჴ", <<"Ჴ">>>>, <<"ჵ", <<"Ჵ">>>>, <<"ჶ", <<"Ჶ">>>>, <<"ჷ", <<"Ჷ">>>>,
    <<"ჸ", <<"Ჸ">>>>, <<"ჹ", <<"Ჹ">>>>, <<"ჺ", <<"Ჺ">>>>, <<"ჽ", <<"Ჽ">>>>,
    <<"ჾ", <<"Ჾ">>>>, <<"ჿ", <<"Ჿ">>>>, <<"ᏸ", <<"Ᏸ">>>>, <<"ᏹ", <<"Ᏹ">>>>,
    <<"ᏺ", <<"Ᏺ">>>>, <<"ᏻ", <<"Ᏻ">>>>, <<"ᏼ", <<"Ᏼ">>>>, <<"ᏽ", <<"Ᏽ">>>>,
    <<"ᲀ", <<"U+0412">>>>, <<"ᲁ", <<"U+0414">>>>, <<"ᲂ", <<"U+041E">>>>,
    <<"ᲃ", <<"U+0421">>>>, <<"ᲄ", <<"U+0422">>>>, <<"ᲅ", <<"U+0422">>>>,
    <<"ᲆ", <<"U+042A">>>>, <<"ᲇ", <<"U+0462">>>>, <<"ᲈ", <<"U+A64A">>>>,
    <<"U+1D79", <<"U+A77D">>>>, <<"U+1D7D", <<"U+2C63">>>>,
    <<"ᶎ", <<"Ᶎ">>>>, <<"U+1E01", <<"U+1E00">>>>,
    <<"U+1E03", <<"U+1E02">>>>, <<"U+1E05", <<"U+1E04">>>>,
    <<"U+1E07", <<"U+1E06">>>>, <<"U+1E09", <<"U+1E08">>>>,
    <<"U+1E0B", <<"U+1E0A">>>>, <<"U+1E0D", <<"U+1E0C">>>>,
    <<"U+1E0F", <<"U+1E0E">>>>, <<"U+1E11", <<"U+1E10">>>>,
    <<"U+1E13", <<"U+1E12">>>>, <<"U+1E15", <<"U+1E14">>>>,
    <<"U+1E17", <<"U+1E16">>>>, <<"U+1E19", <<"U+1E18">>>>,
    <<"U+1E1B", <<"U+1E1A">>>>, <<"U+1E1D", <<"U+1E1C">>>>,
    <<"U+1E1F", <<"U+1E1E">>>>, <<"U+1E21", <<"U+1E20">>>>,
    <<"U+1E23", <<"U+1E22">>>>, <<"U+1E25", <<"U+1E24">>>>,
    <<"U+1E27", <<"U+1E26">>>>, <<"U+1E29", <<"U+1E28">>>>,
    <<"U+1E2B", <<"U+1E2A">>>>, <<"U+1E2D", <<"U+1E2C">>>>,
    <<"U+1E2F", <<"U+1E2E">>>>, <<"U+1E31", <<"U+1E30">>>>,
    <<"U+1E33", <<"U+1E32">>>>, <<"U+1E35", <<"U+1E34">>>>,
    <<"U+1E37", <<"U+1E36">>>>, <<"U+1E39", <<"U+1E38">>>>,
    <<"U+1E3B", <<"U+1E3A">>>>, <<"U+1E3D", <<"U+1E3C">>>>,
    <<"U+1E3F", <<"U+1E3E">>>>, <<"U+1E41", <<"U+1E40">>>>,
    <<"U+1E43", <<"U+1E42">>>>, <<"U+1E45", <<"U+1E44">>>>,
    <<"U+1E47", <<"U+1E46">>>>, <<"U+1E49", <<"U+1E48">>>>,
    <<"U+1E4B", <<"U+1E4A">>>>, <<"U+1E4D", <<"U+1E4C">>>>,
    <<"U+1E4F", <<"U+1E4E">>>>, <<"U+1E51", <<"U+1E50">>>>,
    <<"U+1E53", <<"U+1E52">>>>, <<"U+1E55", <<"U+1E54">>>>,
    <<"U+1E57", <<"U+1E56">>>>, <<"U+1E59", <<"U+1E58">>>>,
    <<"U+1E5B", <<"U+1E5A">>>>, <<"U+1E5D", <<"U+1E5C">>>>,
    <<"U+1E5F", <<"U+1E5E">>>>, <<"U+1E61", <<"U+1E60">>>>,
    <<"U+1E63", <<"U+1E62">>>>, <<"U+1E65", <<"U+1E64">>>>,
    <<"U+1E67", <<"U+1E66">>>>, <<"U+1E69", <<"U+1E68">>>>,
    <<"U+1E6B", <<"U+1E6A">>>>, <<"U+1E6D", <<"U+1E6C">>>>,
    <<"U+1E6F", <<"U+1E6E">>>>, <<"U+1E71", <<"U+1E70">>>>,
    <<"U+1E73", <<"U+1E72">>>>, <<"U+1E75", <<"U+1E74">>>>,
    <<"U+1E77", <<"U+1E76">>>>, <<"U+1E79", <<"U+1E78">>>>,
    <<"U+1E7B", <<"U+1E7A">>>>, <<"U+1E7D", <<"U+1E7C">>>>,
    <<"U+1E7F", <<"U+1E7E">>>>, <<"ẁ", <<"Ẁ">>>>, <<"ẃ", <<"Ẃ">>>>,
    <<"ẅ", <<"Ẅ">>>>, <<"ẇ", <<"Ẇ">>>>, <<"ẉ", <<"Ẉ">>>>, <<"ẋ", <<"Ẋ">>>>,
    <<"ẍ", <<"Ẍ">>>>, <<"ẏ", <<"Ẏ">>>>, <<"ẑ", <<"Ẑ">>>>, <<"ẓ", <<"Ẓ">>>>,
    <<"ẕ", <<"Ẕ">>>>, <<"ẖ", <<"H", "U+0331">>>>,
    <<"ẗ", <<"T", "U+0308">>>>, <<"ẘ", <<"W", "U+030A">>>>,
    <<"ẙ", <<"Y", "U+030A">>>>, <<"ẚ", <<"A", "ʾ">>>>,
    <<"ẛ", <<"U+1E60">>>>, <<"ạ", <<"Ạ">>>>, <<"ả", <<"Ả">>>>,
    <<"ấ", <<"Ấ">>>>, <<"ầ", <<"Ầ">>>>, <<"ẩ", <<"Ẩ">>>>, <<"ẫ", <<"Ẫ">>>>,
    <<"ậ", <<"Ậ">>>>, <<"ắ", <<"Ắ">>>>, <<"ằ", <<"Ằ">>>>, <<"ẳ", <<"Ẳ">>>>,
    <<"ẵ", <<"Ẵ">>>>, <<"ặ", <<"Ặ">>>>, <<"ẹ", <<"Ẹ">>>>, <<"ẻ", <<"Ẻ">>>>,
    <<"ẽ", <<"Ẽ">>>>, <<"ế", <<"Ế">>>>, <<"ề", <<"Ề">>>>, <<"ể", <<"Ể">>>>,
    <<"ễ", <<"Ễ">>>>, <<"ệ", <<"Ệ">>>>, <<"ỉ", <<"Ỉ">>>>, <<"ị", <<"Ị">>>>,
    <<"ọ", <<"Ọ">>>>, <<"ỏ", <<"Ỏ">>>>, <<"ố", <<"Ố">>>>, <<"ồ", <<"Ồ">>>>,
    <<"ổ", <<"Ổ">>>>, <<"ỗ", <<"Ỗ">>>>, <<"ộ", <<"Ộ">>>>, <<"ớ", <<"Ớ">>>>,
    <<"ờ", <<"Ờ">>>>, <<"ở", <<"Ở">>>>, <<"ỡ", <<"Ỡ">>>>, <<"ợ", <<"Ợ">>>>,
    <<"ụ", <<"Ụ">>>>, <<"ủ", <<"Ủ">>>>, <<"ứ", <<"Ứ">>>>, <<"ừ", <<"Ừ">>>>,
    <<"ử", <<"Ử">>>>, <<"ữ", <<"Ữ">>>>, <<"ự", <<"Ự">>>>, <<"ỳ", <<"Ỳ">>>>,
    <<"ỵ", <<"Ỵ">>>>, <<"ỷ", <<"Ỷ">>>>, <<"ỹ", <<"Ỹ">>>>, <<"ỻ", <<"Ỻ">>>>,
    <<"ỽ", <<"Ỽ">>>>, <<"ỿ", <<"Ỿ">>>>, <<"U+1F00", <<"U+1F08">>>>,
    <<"U+1F01", <<"U+1F09">>>>, <<"U+1F02", <<"U+1F0A">>>>,
    <<"U+1F03", <<"U+1F0B">>>>, <<"U+1F04", <<"U+1F0C">>>>,
    <<"U+1F05", <<"U+1F0D">>>>, <<"U+1F06", <<"U+1F0E">>>>,
    <<"U+1F07", <<"U+1F0F">>>>, <<"U+1F10", <<"U+1F18">>>>,
    <<"U+1F11", <<"U+1F19">>>>, <<"U+1F12", <<"U+1F1A">>>>,
    <<"U+1F13", <<"U+1F1B">>>>, <<"U+1F14", <<"U+1F1C">>>>,
    <<"U+1F15", <<"U+1F1D">>>>, <<"U+1F20", <<"U+1F28">>>>,
    <<"U+1F21", <<"U+1F29">>>>, <<"U+1F22", <<"U+1F2A">>>>,
    <<"U+1F23", <<"U+1F2B">>>>, <<"U+1F24", <<"U+1F2C">>>>,
    <<"U+1F25", <<"U+1F2D">>>>, <<"U+1F26", <<"U+1F2E">>>>,
    <<"U+1F27", <<"U+1F2F">>>>, <<"U+1F30", <<"U+1F38">>>>,
    <<"U+1F31", <<"U+1F39">>>>, <<"U+1F32", <<"U+1F3A">>>>,
    <<"U+1F33", <<"U+1F3B">>>>, <<"U+1F34", <<"U+1F3C">>>>,
    <<"U+1F35", <<"U+1F3D">>>>, <<"U+1F36", <<"U+1F3E">>>>,
    <<"U+1F37", <<"U+1F3F">>>>, <<"U+1F40", <<"U+1F48">>>>,
    <<"U+1F41", <<"U+1F49">>>>, <<"U+1F42", <<"U+1F4A">>>>,
    <<"U+1F43", <<"U+1F4B">>>>, <<"U+1F44", <<"U+1F4C">>>>,
    <<"U+1F45", <<"U+1F4D">>>>, <<"U+1F50", <<"Υ", "U+0313">>>>,
    <<"U+1F51", <<"U+1F59">>>>, <<"U+1F52", <<"Υ", "U+0313", "U+0300">>>>,
    <<"U+1F53", <<"U+1F5B">>>>, <<"U+1F54", <<"Υ", "U+0313", "U+0301">>>>,
    <<"U+1F55", <<"U+1F5D">>>>, <<"U+1F56", <<"Υ", "U+0313", "U+0342">>>>,
    <<"U+1F57", <<"U+1F5F">>>>, <<"U+1F60", <<"U+1F68">>>>,
    <<"U+1F61", <<"U+1F69">>>>, <<"U+1F62", <<"U+1F6A">>>>,
    <<"U+1F63", <<"U+1F6B">>>>, <<"U+1F64", <<"U+1F6C">>>>,
    <<"U+1F65", <<"U+1F6D">>>>, <<"U+1F66", <<"U+1F6E">>>>,
    <<"U+1F67", <<"U+1F6F">>>>, <<"U+1F70", <<"Ὰ">>>>,
    <<"U+1F71", <<"Ά">>>>, <<"U+1F72", <<"Ὲ">>>>, <<"U+1F73", <<"Έ">>>>,
    <<"U+1F74", <<"Ὴ">>>>, <<"U+1F75", <<"Ή">>>>, <<"U+1F76", <<"Ὶ">>>>,
    <<"U+1F77", <<"Ί">>>>, <<"U+1F78", <<"Ὸ">>>>, <<"U+1F79", <<"Ό">>>>,
    <<"U+1F7A", <<"Ὺ">>>>, <<"U+1F7B", <<"Ύ">>>>, <<"U+1F7C", <<"Ὼ">>>>,
    <<"U+1F7D", <<"Ώ">>>>, <<"ᾀ", <<"U+1F08", "Ι">>>>,
    <<"ᾁ", <<"U+1F09", "Ι">>>>, <<"ᾂ", <<"U+1F0A", "Ι">>>>,
    <<"ᾃ", <<"U+1F0B", "Ι">>>>, <<"ᾄ", <<"U+1F0C", "Ι">>>>,
    <<"ᾅ", <<"U+1F0D", "Ι">>>>, <<"ᾆ", <<"U+1F0E", "Ι">>>>,
    <<"ᾇ", <<"U+1F0F", "Ι">>>>, <<"ᾈ", <<"U+1F08", "Ι">>>>,
    <<"ᾉ", <<"U+1F09", "Ι">>>>, <<"ᾊ", <<"U+1F0A", "Ι">>>>,
    <<"ᾋ", <<"U+1F0B", "Ι">>>>, <<"ᾌ", <<"U+1F0C", "Ι">>>>,
    <<"ᾍ", <<"U+1F0D", "Ι">>>>, <<"ᾎ", <<"U+1F0E", "Ι">>>>,
    <<"ᾏ", <<"U+1F0F", "Ι">>>>, <<"ᾐ", <<"U+1F28", "Ι">>>>,
    <<"ᾑ", <<"U+1F29", "Ι">>>>, <<"ᾒ", <<"U+1F2A", "Ι">>>>,
    <<"ᾓ", <<"U+1F2B", "Ι">>>>, <<"ᾔ", <<"U+1F2C", "Ι">>>>,
    <<"ᾕ", <<"U+1F2D", "Ι">>>>, <<"ᾖ", <<"U+1F2E", "Ι">>>>,
    <<"ᾗ", <<"U+1F2F", "Ι">>>>, <<"ᾘ", <<"U+1F28", "Ι">>>>,
    <<"ᾙ", <<"U+1F29", "Ι">>>>, <<"ᾚ", <<"U+1F2A", "Ι">>>>,
    <<"ᾛ", <<"U+1F2B", "Ι">>>>, <<"ᾜ", <<"U+1F2C", "Ι">>>>,
    <<"ᾝ", <<"U+1F2D", "Ι">>>>, <<"ᾞ", <<"U+1F2E", "Ι">>>>,
    <<"ᾟ", <<"U+1F2F", "Ι">>>>, <<"ᾠ", <<"U+1F68", "Ι">>>>,
    <<"ᾡ", <<"U+1F69", "Ι">>>>, <<"ᾢ", <<"U+1F6A", "Ι">>>>,
    <<"ᾣ", <<"U+1F6B", "Ι">>>>, <<"ᾤ", <<"U+1F6C", "Ι">>>>,
    <<"ᾥ", <<"U+1F6D", "Ι">>>>, <<"ᾦ", <<"U+1F6E", "Ι">>>>,
    <<"ᾧ", <<"U+1F6F", "Ι">>>>, <<"ᾨ", <<"U+1F68", "Ι">>>>,
    <<"ᾩ", <<"U+1F69", "Ι">>>>, <<"ᾪ", <<"U+1F6A", "Ι">>>>,
    <<"ᾫ", <<"U+1F6B", "Ι">>>>, <<"ᾬ", <<"U+1F6C", "Ι">>>>,
    <<"ᾭ", <<"U+1F6D", "Ι">>>>, <<"ᾮ", <<"U+1F6E", "Ι">>>>,
    <<"ᾯ", <<"U+1F6F", "Ι">>>>, <<"ᾰ", <<"Ᾰ">>>>, <<"ᾱ", <<"Ᾱ">>>>,
    <<"ᾲ", <<"Ὰ", "Ι">>>>, <<"ᾳ", <<"Α", "Ι">>>>, <<"ᾴ", <<"Ά", "Ι">>>>,
    <<"ᾶ", <<"Α", "U+0342">>>>, <<"ᾷ", <<"Α", "U+0342", "Ι">>>>,
    <<"ᾼ", <<"Α", "Ι">>>>, <<"ι", <<"Ι">>>>, <<"ῂ", <<"Ὴ", "Ι">>>>,
    <<"ῃ", <<"Η", "Ι">>>>, <<"ῄ", <<"Ή", "Ι">>>>,
    <<"ῆ", <<"Η", "U+0342">>>>, <<"ῇ", <<"Η", "U+0342", "Ι">>>>,
    <<"ῌ", <<"Η", "Ι">>>>, <<"ῐ", <<"Ῐ">>>>, <<"ῑ", <<"Ῑ">>>>,
    <<"ῒ", <<"Ι", "U+0308", "U+0300">>>>,
    <<"ΐ", <<"Ι", "U+0308", "U+0301">>>>, <<"ῖ", <<"Ι", "U+0342">>>>,
    <<"ῗ", <<"Ι", "U+0308", "U+0342">>>>, <<"ῠ", <<"Ῠ">>>>,
    <<"ῡ", <<"Ῡ">>>>, <<"ῢ", <<"Υ", "U+0308", "U+0300">>>>,
    <<"ΰ", <<"Υ", "U+0308", "U+0301">>>>, <<"ῤ", <<"Ρ", "U+0313">>>>,
    <<"ῥ", <<"Ῥ">>>>, <<"ῦ", <<"Υ", "U+0342">>>>,
    <<"ῧ", <<"Υ", "U+0308", "U+0342">>>>, <<"ῲ", <<"Ὼ", "Ι">>>>,
    <<"ῳ", <<"Ω", "Ι">>>>, <<"ῴ", <<"Ώ", "Ι">>>>,
    <<"ῶ", <<"Ω", "U+0342">>>>, <<"ῷ", <<"Ω", "U+0342", "Ι">>>>,
    <<"ῼ", <<"Ω", "Ι">>>>, <<"U+214E", <<"U+2132">>>>,
    <<"U+2170", <<"U+2160">>>>, <<"U+2171", <<"U+2161">>>>,
    <<"U+2172", <<"U+2162">>>>, <<"U+2173", <<"U+2163">>>>,
    <<"U+2174", <<"U+2164">>>>, <<"U+2175", <<"U+2165">>>>,
    <<"U+2176", <<"U+2166">>>>, <<"U+2177", <<"U+2167">>>>,
    <<"U+2178", <<"U+2168">>>>, <<"U+2179", <<"U+2169">>>>,
    <<"U+217A", <<"U+216A">>>>, <<"U+217B", <<"U+216B">>>>,
    <<"U+217C", <<"U+216C">>>>, <<"U+217D", <<"U+216D">>>>,
    <<"U+217E", <<"U+216E">>>>, <<"U+217F", <<"U+216F">>>>,
    <<"ↄ", <<"Ↄ">>>>, <<"ⓐ", <<"Ⓐ">>>>, <<"ⓑ", <<"Ⓑ">>>>, <<"ⓒ", <<"Ⓒ">>>>,
    <<"ⓓ", <<"Ⓓ">>>>, <<"ⓔ", <<"Ⓔ">>>>, <<"ⓕ", <<"Ⓕ">>>>, <<"ⓖ", <<"Ⓖ">>>>,
    <<"ⓗ", <<"Ⓗ">>>>, <<"ⓘ", <<"Ⓘ">>>>, <<"ⓙ", <<"Ⓙ">>>>, <<"ⓚ", <<"Ⓚ">>>>,
    <<"ⓛ", <<"Ⓛ">>>>, <<"ⓜ", <<"Ⓜ">>>>, <<"ⓝ", <<"Ⓝ">>>>, <<"ⓞ", <<"Ⓞ">>>>,
    <<"ⓟ", <<"Ⓟ">>>>, <<"ⓠ", <<"Ⓠ">>>>, <<"ⓡ", <<"Ⓡ">>>>, <<"ⓢ", <<"Ⓢ">>>>,
    <<"ⓣ", <<"Ⓣ">>>>, <<"ⓤ", <<"Ⓤ">>>>, <<"ⓥ", <<"Ⓥ">>>>, <<"ⓦ", <<"Ⓦ">>>>,
    <<"ⓧ", <<"Ⓧ">>>>, <<"ⓨ", <<"Ⓨ">>>>, <<"ⓩ", <<"Ⓩ">>>>,
    <<"U+2C30", <<"U+2C00">>>>, <<"U+2C31", <<"U+2C01">>>>,
    <<"U+2C32", <<"U+2C02">>>>, <<"U+2C33", <<"U+2C03">>>>,
    <<"U+2C34", <<"U+2C04">>>>, <<"U+2C35", <<"U+2C05">>>>,
    <<"U+2C36", <<"U+2C06">>>>, <<"U+2C37", <<"U+2C07">>>>,
    <<"U+2C38", <<"U+2C08">>>>, <<"U+2C39", <<"U+2C09">>>>,
    <<"U+2C3A", <<"U+2C0A">>>>, <<"U+2C3B", <<"U+2C0B">>>>,
    <<"U+2C3C", <<"U+2C0C">>>>, <<"U+2C3D", <<"U+2C0D">>>>,
    <<"U+2C3E", <<"U+2C0E">>>>, <<"U+2C3F", <<"U+2C0F">>>>,
    <<"U+2C40", <<"U+2C10">>>>, <<"U+2C41", <<"U+2C11">>>>,
    <<"U+2C42", <<"U+2C12">>>>, <<"U+2C43", <<"U+2C13">>>>,
    <<"U+2C44", <<"U+2C14">>>>, <<"U+2C45", <<"U+2C15">>>>,
    <<"U+2C46", <<"U+2C16">>>>, <<"U+2C47", <<"U+2C17">>>>,
    <<"U+2C48", <<"U+2C18">>>>, <<"U+2C49", <<"U+2C19">>>>,
    <<"U+2C4A", <<"U+2C1A">>>>, <<"U+2C4B", <<"U+2C1B">>>>,
    <<"U+2C4C", <<"U+2C1C">>>>, <<"U+2C4D", <<"U+2C1D">>>>,
    <<"U+2C4E", <<"U+2C1E">>>>, <<"U+2C4F", <<"U+2C1F">>>>,
    <<"U+2C50", <<"U+2C20">>>>, <<"U+2C51", <<"U+2C21">>>>,
    <<"U+2C52", <<"U+2C22">>>>, <<"U+2C53", <<"U+2C23">>>>,
    <<"U+2C54", <<"U+2C24">>>>, <<"U+2C55", <<"U+2C25">>>>,
    <<"U+2C56", <<"U+2C26">>>>, <<"U+2C57", <<"U+2C27">>>>,
    <<"U+2C58", <<"U+2C28">>>>, <<"U+2C59", <<"U+2C29">>>>,
    <<"U+2C5A", <<"U+2C2A">>>>, <<"U+2C5B", <<"U+2C2B">>>>,
    <<"U+2C5C", <<"U+2C2C">>>>, <<"U+2C5D", <<"U+2C2D">>>>,
    <<"U+2C5E", <<"U+2C2E">>>>, <<"U+2C5F", <<"U+2C2F">>>>,
    <<"U+2C61", <<"U+2C60">>>>, <<"U+2C65", <<"U+023A">>>>,
    <<"U+2C66", <<"U+023E">>>>, <<"U+2C68", <<"U+2C67">>>>,
    <<"U+2C6A", <<"U+2C69">>>>, <<"U+2C6C", <<"U+2C6B">>>>,
    <<"U+2C73", <<"U+2C72">>>>, <<"U+2C76", <<"U+2C75">>>>,
    <<"ⲁ", <<"Ⲁ">>>>, <<"ⲃ", <<"Ⲃ">>>>, <<"ⲅ", <<"Ⲅ">>>>, <<"ⲇ", <<"Ⲇ">>>>,
    <<"ⲉ", <<"Ⲉ">>>>, <<"ⲋ", <<"Ⲋ">>>>, <<"ⲍ", <<"Ⲍ">>>>, <<"ⲏ", <<"Ⲏ">>>>,
    <<"ⲑ", <<"Ⲑ">>>>, <<"ⲓ", <<"Ⲓ">>>>, <<"ⲕ", <<"Ⲕ">>>>, <<"ⲗ", <<"Ⲗ">>>>,
    <<"ⲙ", <<"Ⲙ">>>>, <<"ⲛ", <<"Ⲛ">>>>, <<"ⲝ", <<"Ⲝ">>>>, <<"ⲟ", <<"Ⲟ">>>>,
    <<"ⲡ", <<"Ⲡ">>>>, <<"ⲣ", <<"Ⲣ">>>>, <<"ⲥ", <<"Ⲥ">>>>, <<"ⲧ", <<"Ⲧ">>>>,
    <<"ⲩ", <<"Ⲩ">>>>, <<"ⲫ", <<"Ⲫ">>>>, <<"ⲭ", <<"Ⲭ">>>>, <<"ⲯ", <<"Ⲯ">>>>,
    <<"ⲱ", <<"Ⲱ">>>>, <<"ⲳ", <<"Ⲳ">>>>, <<"ⲵ", <<"Ⲵ">>>>, <<"ⲷ", <<"Ⲷ">>>>,
    <<"ⲹ", <<"Ⲹ">>>>, <<"ⲻ", <<"Ⲻ">>>>, <<"ⲽ", <<"Ⲽ">>>>, <<"ⲿ", <<"Ⲿ">>>>,
    <<"ⳁ", <<"Ⳁ">>>>, <<"ⳃ", <<"Ⳃ">>>>, <<"ⳅ", <<"Ⳅ">>>>, <<"ⳇ", <<"Ⳇ">>>>,
    <<"ⳉ", <<"Ⳉ">>>>, <<"ⳋ", <<"Ⳋ">>>>, <<"ⳍ", <<"Ⳍ">>>>, <<"ⳏ", <<"Ⳏ">>>>,
    <<"ⳑ", <<"Ⳑ">>>>, <<"ⳓ", <<"Ⳓ">>>>, <<"ⳕ", <<"Ⳕ">>>>, <<"ⳗ", <<"Ⳗ">>>>,
    <<"ⳙ", <<"Ⳙ">>>>, <<"ⳛ", <<"Ⳛ">>>>, <<"ⳝ", <<"Ⳝ">>>>, <<"ⳟ", <<"Ⳟ">>>>,
    <<"ⳡ", <<"Ⳡ">>>>, <<"ⳣ", <<"Ⳣ">>>>, <<"ⳬ", <<"Ⳬ">>>>, <<"ⳮ", <<"Ⳮ">>>>,
    <<"ⳳ", <<"Ⳳ">>>>, <<"U+2D00", <<"Ⴀ">>>>, <<"U+2D01", <<"Ⴁ">>>>,
    <<"U+2D02", <<"Ⴂ">>>>, <<"U+2D03", <<"Ⴃ">>>>, <<"U+2D04", <<"Ⴄ">>>>,
    <<"U+2D05", <<"Ⴅ">>>>, <<"U+2D06", <<"Ⴆ">>>>, <<"U+2D07", <<"Ⴇ">>>>,
    <<"U+2D08", <<"Ⴈ">>>>, <<"U+2D09", <<"Ⴉ">>>>, <<"U+2D0A", <<"Ⴊ">>>>,
    <<"U+2D0B", <<"Ⴋ">>>>, <<"U+2D0C", <<"Ⴌ">>>>, <<"U+2D0D", <<"Ⴍ">>>>,
    <<"U+2D0E", <<"Ⴎ">>>>, <<"U+2D0F", <<"Ⴏ">>>>, <<"U+2D10", <<"Ⴐ">>>>,
    <<"U+2D11", <<"Ⴑ">>>>, <<"U+2D12", <<"Ⴒ">>>>, <<"U+2D13", <<"Ⴓ">>>>,
    <<"U+2D14", <<"Ⴔ">>>>, <<"U+2D15", <<"Ⴕ">>>>, <<"U+2D16", <<"Ⴖ">>>>,
    <<"U+2D17", <<"Ⴗ">>>>, <<"U+2D18", <<"Ⴘ">>>>, <<"U+2D19", <<"Ⴙ">>>>,
    <<"U+2D1A", <<"Ⴚ">>>>, <<"U+2D1B", <<"Ⴛ">>>>, <<"U+2D1C", <<"Ⴜ">>>>,
    <<"U+2D1D", <<"Ⴝ">>>>, <<"U+2D1E", <<"Ⴞ">>>>, <<"U+2D1F", <<"Ⴟ">>>>,
    <<"U+2D20", <<"Ⴠ">>>>, <<"U+2D21", <<"Ⴡ">>>>, <<"U+2D22", <<"Ⴢ">>>>,
    <<"U+2D23", <<"Ⴣ">>>>, <<"U+2D24", <<"Ⴤ">>>>, <<"U+2D25", <<"Ⴥ">>>>,
    <<"U+2D27", <<"Ⴧ">>>>, <<"U+2D2D", <<"Ⴭ">>>>,
    <<"U+A641", <<"U+A640">>>>, <<"U+A643", <<"U+A642">>>>,
    <<"U+A645", <<"U+A644">>>>, <<"U+A647", <<"U+A646">>>>,
    <<"U+A649", <<"U+A648">>>>, <<"U+A64B", <<"U+A64A">>>>,
    <<"U+A64D", <<"U+A64C">>>>, <<"U+A64F", <<"U+A64E">>>>,
    <<"U+A651", <<"U+A650">>>>, <<"U+A653", <<"U+A652">>>>,
    <<"U+A655", <<"U+A654">>>>, <<"U+A657", <<"U+A656">>>>,
    <<"U+A659", <<"U+A658">>>>, <<"U+A65B", <<"U+A65A">>>>,
    <<"U+A65D", <<"U+A65C">>>>, <<"U+A65F", <<"U+A65E">>>>,
    <<"U+A661", <<"U+A660">>>>, <<"U+A663", <<"U+A662">>>>,
    <<"U+A665", <<"U+A664">>>>, <<"U+A667", <<"U+A666">>>>,
    <<"U+A669", <<"U+A668">>>>, <<"U+A66B", <<"U+A66A">>>>,
    <<"U+A66D", <<"U+A66C">>>>, <<"ꚁ", <<"Ꚁ">>>>, <<"ꚃ", <<"Ꚃ">>>>,
    <<"ꚅ", <<"Ꚅ">>>>, <<"ꚇ", <<"Ꚇ">>>>, <<"ꚉ", <<"Ꚉ">>>>, <<"ꚋ", <<"Ꚋ">>>>,
    <<"ꚍ", <<"Ꚍ">>>>, <<"ꚏ", <<"Ꚏ">>>>, <<"ꚑ", <<"Ꚑ">>>>, <<"ꚓ", <<"Ꚓ">>>>,
    <<"ꚕ", <<"Ꚕ">>>>, <<"ꚗ", <<"Ꚗ">>>>, <<"ꚙ", <<"Ꚙ">>>>, <<"ꚛ", <<"Ꚛ">>>>,
    <<"U+A723", <<"U+A722">>>>, <<"U+A725", <<"U+A724">>>>,
    <<"U+A727", <<"U+A726">>>>, <<"U+A729", <<"U+A728">>>>,
    <<"U+A72B", <<"U+A72A">>>>, <<"U+A72D", <<"U+A72C">>>>,
    <<"U+A72F", <<"U+A72E">>>>, <<"U+A733", <<"U+A732">>>>,
    <<"U+A735", <<"U+A734">>>>, <<"U+A737", <<"U+A736">>>>,
    <<"U+A739", <<"U+A738">>>>, <<"U+A73B", <<"U+A73A">>>>,
    <<"U+A73D", <<"U+A73C">>>>, <<"U+A73F", <<"U+A73E">>>>,
    <<"U+A741", <<"U+A740">>>>, <<"U+A743", <<"U+A742">>>>,
    <<"U+A745", <<"U+A744">>>>, <<"U+A747", <<"U+A746">>>>,
    <<"U+A749", <<"U+A748">>>>, <<"U+A74B", <<"U+A74A">>>>,
    <<"U+A74D", <<"U+A74C">>>>, <<"U+A74F", <<"U+A74E">>>>,
    <<"U+A751", <<"U+A750">>>>, <<"U+A753", <<"U+A752">>>>,
    <<"U+A755", <<"U+A754">>>>, <<"U+A757", <<"U+A756">>>>,
    <<"U+A759", <<"U+A758">>>>, <<"U+A75B", <<"U+A75A">>>>,
    <<"U+A75D", <<"U+A75C">>>>, <<"U+A75F", <<"U+A75E">>>>,
    <<"U+A761", <<"U+A760">>>>, <<"U+A763", <<"U+A762">>>>,
    <<"U+A765", <<"U+A764">>>>, <<"U+A767", <<"U+A766">>>>,
    <<"U+A769", <<"U+A768">>>>, <<"U+A76B", <<"U+A76A">>>>,
    <<"U+A76D", <<"U+A76C">>>>, <<"U+A76F", <<"U+A76E">>>>,
    <<"U+A77A", <<"U+A779">>>>, <<"U+A77C", <<"U+A77B">>>>,
    <<"U+A77F", <<"U+A77E">>>>, <<"ꞁ", <<"Ꞁ">>>>, <<"ꞃ", <<"Ꞃ">>>>,
    <<"ꞅ", <<"Ꞅ">>>>, <<"ꞇ", <<"Ꞇ">>>>, <<"ꞌ", <<"Ꞌ">>>>, <<"ꞑ", <<"Ꞑ">>>>,
    <<"ꞓ", <<"Ꞓ">>>>, <<"ꞔ", <<"Ꞔ">>>>, <<"ꞗ", <<"Ꞗ">>>>, <<"ꞙ", <<"Ꞙ">>>>,
    <<"ꞛ", <<"Ꞛ">>>>, <<"ꞝ", <<"Ꞝ">>>>, <<"ꞟ", <<"Ꞟ">>>>, <<"ꞡ", <<"Ꞡ">>>>,
    <<"ꞣ", <<"Ꞣ">>>>, <<"ꞥ", <<"Ꞥ">>>>, <<"ꞧ", <<"Ꞧ">>>>, <<"ꞩ", <<"Ꞩ">>>>,
    <<"ꞵ", <<"Ꞵ">>>>, <<"ꞷ", <<"Ꞷ">>>>, <<"ꞹ", <<"Ꞹ">>>>, <<"ꞻ", <<"Ꞻ">>>>,
    <<"ꞽ", <<"Ꞽ">>>>, <<"ꞿ", <<"Ꞿ">>>>, <<"ꟁ", <<"Ꟁ">>>>, <<"ꟃ", <<"Ꟃ">>>>,
    <<"ꟈ", <<"Ꟈ">>>>, <<"ꟊ", <<"Ꟊ">>>>, <<"ꟑ", <<"Ꟑ">>>>, <<"ꟗ", <<"Ꟗ">>>>,
    <<"ꟙ", <<"Ꟙ">>>>, <<"ꟶ", <<"Ꟶ">>>>, <<"U+AB53", <<"Ꭓ">>>>,
    <<"U+AB70", <<"Ꭰ">>>>, <<"U+AB71", <<"Ꭱ">>>>, <<"U+AB72", <<"Ꭲ">>>>,
    <<"U+AB73", <<"Ꭳ">>>>, <<"U+AB74", <<"Ꭴ">>>>, <<"U+AB75", <<"Ꭵ">>>>,
    <<"U+AB76", <<"Ꭶ">>>>, <<"U+AB77", <<"Ꭷ">>>>, <<"U+AB78", <<"Ꭸ">>>>,
    <<"U+AB79", <<"Ꭹ">>>>, <<"U+AB7A", <<"Ꭺ">>>>, <<"U+AB7B", <<"Ꭻ">>>>,
    <<"U+AB7C", <<"Ꭼ">>>>, <<"U+AB7D", <<"Ꭽ">>>>, <<"U+AB7E", <<"Ꭾ">>>>,
    <<"U+AB7F", <<"Ꭿ">>>>, <<"ꮀ", <<"Ꮀ">>>>, <<"ꮁ", <<"Ꮁ">>>>,
    <<"ꮂ", <<"Ꮂ">>>>, <<"ꮃ", <<"Ꮃ">>>>, <<"ꮄ", <<"Ꮄ">>>>, <<"ꮅ", <<"Ꮅ">>>>,
    <<"ꮆ", <<"Ꮆ">>>>, <<"ꮇ", <<"Ꮇ">>>>, <<"ꮈ", <<"Ꮈ">>>>, <<"ꮉ", <<"Ꮉ">>>>,
    <<"ꮊ", <<"Ꮊ">>>>, <<"ꮋ", <<"Ꮋ">>>>, <<"ꮌ", <<"Ꮌ">>>>, <<"ꮍ", <<"Ꮍ">>>>,
    <<"ꮎ", <<"Ꮎ">>>>, <<"ꮏ", <<"Ꮏ">>>>, <<"ꮐ", <<"Ꮐ">>>>, <<"ꮑ", <<"Ꮑ">>>>,
    <<"ꮒ", <<"Ꮒ">>>>, <<"ꮓ", <<"Ꮓ">>>>, <<"ꮔ", <<"Ꮔ">>>>, <<"ꮕ", <<"Ꮕ">>>>,
    <<"ꮖ", <<"Ꮖ">>>>, <<"ꮗ", <<"Ꮗ">>>>, <<"ꮘ", <<"Ꮘ">>>>, <<"ꮙ", <<"Ꮙ">>>>,
    <<"ꮚ", <<"Ꮚ">>>>, <<"ꮛ", <<"Ꮛ">>>>, <<"ꮜ", <<"Ꮜ">>>>, <<"ꮝ", <<"Ꮝ">>>>,
    <<"ꮞ", <<"Ꮞ">>>>, <<"ꮟ", <<"Ꮟ">>>>, <<"ꮠ", <<"Ꮠ">>>>, <<"ꮡ", <<"Ꮡ">>>>,
    <<"ꮢ", <<"Ꮢ">>>>, <<"ꮣ", <<"Ꮣ">>>>, <<"ꮤ", <<"Ꮤ">>>>, <<"ꮥ", <<"Ꮥ">>>>,
    <<"ꮦ", <<"Ꮦ">>>>, <<"ꮧ", <<"Ꮧ">>>>, <<"ꮨ", <<"Ꮨ">>>>, <<"ꮩ", <<"Ꮩ">>>>,
    <<"ꮪ", <<"Ꮪ">>>>, <<"ꮫ", <<"Ꮫ">>>>, <<"ꮬ", <<"Ꮬ">>>>, <<"ꮭ", <<"Ꮭ">>>>,
    <<"ꮮ", <<"Ꮮ">>>>, <<"ꮯ", <<"Ꮯ">>>>, <<"ꮰ", <<"Ꮰ">>>>, <<"ꮱ", <<"Ꮱ">>>>,
    <<"ꮲ", <<"Ꮲ">>>>, <<"ꮳ", <<"Ꮳ">>>>, <<"ꮴ", <<"Ꮴ">>>>, <<"ꮵ", <<"Ꮵ">>>>,
    <<"ꮶ", <<"Ꮶ">>>>, <<"ꮷ", <<"Ꮷ">>>>, <<"ꮸ", <<"Ꮸ">>>>, <<"ꮹ", <<"Ꮹ">>>>,
    <<"ꮺ", <<"Ꮺ">>>>, <<"ꮻ", <<"Ꮻ">>>>, <<"ꮼ", <<"Ꮼ">>>>, <<"ꮽ", <<"Ꮽ">>>>,
    <<"ꮾ", <<"Ꮾ">>>>, <<"ꮿ", <<"Ꮿ">>>>, <<"U+FB00", <<"F", "F">>>>,
    <<"U+FB01", <<"F", "I">>>>, <<"U+FB02", <<"F", "L">>>>,
    <<"U+FB03", <<"F", "F", "I">>>>, <<"U+FB04", <<"F", "F", "L">>>>,
    <<"U+FB05", <<"S", "T">>>>, <<"U+FB06", <<"S", "T">>>>,
    <<"U+FB13", <<"U+0544", "U+0546">>>>,
    <<"U+FB14", <<"U+0544", "U+0535">>>>,
    <<"U+FB15", <<"U+0544", "U+053B">>>>,
    <<"U+FB16", <<"U+054E", "U+0546">>>>,
    <<"U+FB17", <<"U+0544", "U+053D">>>>, <<"U+FF41", <<"U+FF21">>>>,
    <<"U+FF42", <<"U+FF22">>>>, <<"U+FF43", <<"U+FF23">>>>,
    <<"U+FF44", <<"U+FF24">>>>, <<"U+FF45", <<"U+FF25">>>>,
    <<"U+FF46", <<"U+FF26">>>>, <<"U+FF47", <<"U+FF27">>>>,
    <<"U+FF48", <<"U+FF28">>>>, <<"U+FF49", <<"U+FF29">>>>,
    <<"U+FF4A", <<"U+FF2A">>>>, <<"U+FF4B", <<"U+FF2B">>>>,
    <<"U+FF4C", <<"U+FF2C">>>>, <<"U+FF4D", <<"U+FF2D">>>>,
    <<"U+FF4E", <<"U+FF2E">>>>, <<"U+FF4F", <<"U+FF2F">>>>,
    <<"U+FF50", <<"U+FF30">>>>, <<"U+FF51", <<"U+FF31">>>>,
    <<"U+FF52", <<"U+FF32">>>>, <<"U+FF53", <<"U+FF33">>>>,
    <<"U+FF54", <<"U+FF34">>>>, <<"U+FF55", <<"U+FF35">>>>,
    <<"U+FF56", <<"U+FF36">>>>, <<"U+FF57", <<"U+FF37">>>>,
    <<"U+FF58", <<"U+FF38">>>>, <<"U+FF59", <<"U+FF39">>>>,
    <<"U+FF5A", <<"U+FF3A">>>>, <<"U+10428", <<"U+10400">>>>,
    <<"U+10429", <<"U+10401">>>>, <<"U+1042A", <<"U+10402">>>>,
    <<"U+1042B", <<"U+10403">>>>, <<"U+1042C", <<"U+10404">>>>,
    <<"U+1042D", <<"U+10405">>>>, <<"U+1042E", <<"U+10406">>>>,
    <<"U+1042F", <<"U+10407">>>>, <<"U+10430", <<"U+10408">>>>,
    <<"U+10431", <<"U+10409">>>>, <<"U+10432", <<"U+1040A">>>>,
    <<"U+10433", <<"U+1040B">>>>, <<"U+10434", <<"U+1040C">>>>,
    <<"U+10435", <<"U+1040D">>>>, <<"U+10436", <<"U+1040E">>>>,
    <<"U+10437", <<"U+1040F">>>>, <<"U+10438", <<"U+10410">>>>,
    <<"U+10439", <<"U+10411">>>>, <<"U+1043A", <<"U+10412">>>>,
    <<"U+1043B", <<"U+10413">>>>, <<"U+1043C", <<"U+10414">>>>,
    <<"U+1043D", <<"U+10415">>>>, <<"U+1043E", <<"U+10416">>>>,
    <<"U+1043F", <<"U+10417">>>>, <<"U+10440", <<"U+10418">>>>,
    <<"U+10441", <<"U+10419">>>>, <<"U+10442", <<"U+1041A">>>>,
    <<"U+10443", <<"U+1041B">>>>, <<"U+10444", <<"U+1041C">>>>,
    <<"U+10445", <<"U+1041D">>>>, <<"U+10446", <<"U+1041E">>>>,
    <<"U+10447", <<"U+1041F">>>>, <<"U+10448", <<"U+10420">>>>,
    <<"U+10449", <<"U+10421">>>>, <<"U+1044A", <<"U+10422">>>>,
    <<"U+1044B", <<"U+10423">>>>, <<"U+1044C", <<"U+10424">>>>,
    <<"U+1044D", <<"U+10425">>>>, <<"U+1044E", <<"U+10426">>>>,
    <<"U+1044F", <<"U+10427">>>>, <<"U+104D8", <<"U+104B0">>>>,
    <<"U+104D9", <<"U+104B1">>>>, <<"U+104DA", <<"U+104B2">>>>,
    <<"U+104DB", <<"U+104B3">>>>, <<"U+104DC", <<"U+104B4">>>>,
    <<"U+104DD", <<"U+104B5">>>>, <<"U+104DE", <<"U+104B6">>>>,
    <<"U+104DF", <<"U+104B7">>>>, <<"U+104E0", <<"U+104B8">>>>,
    <<"U+104E1", <<"U+104B9">>>>, <<"U+104E2", <<"U+104BA">>>>,
    <<"U+104E3", <<"U+104BB">>>>, <<"U+104E4", <<"U+104BC">>>>,
    <<"U+104E5", <<"U+104BD">>>>, <<"U+104E6", <<"U+104BE">>>>,
    <<"U+104E7", <<"U+104BF">>>>, <<"U+104E8", <<"U+104C0">>>>,
    <<"U+104E9", <<"U+104C1">>>>, <<"U+104EA", <<"U+104C2">>>>,
    <<"U+104EB", <<"U+104C3">>>>, <<"U+104EC", <<"U+104C4">>>>,
    <<"U+104ED", <<"U+104C5">>>>, <<"U+104EE", <<"U+104C6">>>>,
    <<"U+104EF", <<"U+104C7">>>>, <<"U+104F0", <<"U+104C8">>>>,
    <<"U+104F1", <<"U+104C9">>>>, <<"U+104F2", <<"U+104CA">>>>,
    <<"U+104F3", <<"U+104CB">>>>, <<"U+104F4", <<"U+104CC">>>>,
    <<"U+104F5", <<"U+104CD">>>>, <<"U+104F6", <<"U+104CE">>>>,
    <<"U+104F7", <<"U+104CF">>>>, <<"U+104F8", <<"U+104D0">>>>,
    <<"U+104F9", <<"U+104D1">>>>, <<"U+104FA", <<"U+104D2">>>>,
    <<"U+104FB", <<"U+104D3">>>>, <<"U+10597", <<"U+10570">>>>,
    <<"U+10598", <<"U+10571">>>>, <<"U+10599", <<"U+10572">>>>,
    <<"U+1059A", <<"U+10573">>>>, <<"U+1059B", <<"U+10574">>>>,
    <<"U+1059C", <<"U+10575">>>>, <<"U+1059D", <<"U+10576">>>>,
    <<"U+1059E", <<"U+10577">>>>, <<"U+1059F", <<"U+10578">>>>,
    <<"U+105A0", <<"U+10579">>>>, <<"U+105A1", <<"U+1057A">>>>,
    <<"U+105A3", <<"U+1057C">>>>, <<"U+105A4", <<"U+1057D">>>>,
    <<"U+105A5", <<"U+1057E">>>>, <<"U+105A6", <<"U+1057F">>>>,
    <<"U+105A7", <<"U+10580">>>>, <<"U+105A8", <<"U+10581">>>>,
    <<"U+105A9", <<"U+10582">>>>, <<"U+105AA", <<"U+10583">>>>,
    <<"U+105AB", <<"U+10584">>>>, <<"U+105AC", <<"U+10585">>>>,
    <<"U+105AD", <<"U+10586">>>>, <<"U+105AE", <<"U+10587">>>>,
    <<"U+105AF", <<"U+10588">>>>, <<"U+105B0", <<"U+10589">>>>,
    <<"U+105B1", <<"U+1058A">>>>, <<"U+105B3", <<"U+1058C">>>>,
    <<"U+105B4", <<"U+1058D">>>>, <<"U+105B5", <<"U+1058E">>>>,
    <<"U+105B6", <<"U+1058F">>>>, <<"U+105B7", <<"U+10590">>>>,
    <<"U+105B8", <<"U+10591">>>>, <<"U+105B9", <<"U+10592">>>>,
    <<"U+105BB", <<"U+10594">>>>, <<"U+105BC", <<"U+10595">>>>,
    <<"U+10CC0", <<"U+10C80">>>>, <<"U+10CC1", <<"U+10C81">>>>,
    <<"U+10CC2", <<"U+10C82">>>>, <<"U+10CC3", <<"U+10C83">>>>,
    <<"U+10CC4", <<"U+10C84">>>>, <<"U+10CC5", <<"U+10C85">>>>,
    <<"U+10CC6", <<"U+10C86">>>>, <<"U+10CC7", <<"U+10C87">>>>,
    <<"U+10CC8", <<"U+10C88">>>>, <<"U+10CC9", <<"U+10C89">>>>,
    <<"U+10CCA", <<"U+10C8A">>>>, <<"U+10CCB", <<"U+10C8B">>>>,
    <<"U+10CCC", <<"U+10C8C">>>>, <<"U+10CCD", <<"U+10C8D">>>>,
    <<"U+10CCE", <<"U+10C8E">>>>, <<"U+10CCF", <<"U+10C8F">>>>,
    <<"U+10CD0", <<"U+10C90">>>>, <<"U+10CD1", <<"U+10C91">>>>,
    <<"U+10CD2", <<"U+10C92">>>>, <<"U+10CD3", <<"U+10C93">>>>,
    <<"U+10CD4", <<"U+10C94">>>>, <<"U+10CD5", <<"U+10C95">>>>,
    <<"U+10CD6", <<"U+10C96">>>>, <<"U+10CD7", <<"U+10C97">>>>,
    <<"U+10CD8", <<"U+10C98">>>>, <<"U+10CD9", <<"U+10C99">>>>,
    <<"U+10CDA", <<"U+10C9A">>>>, <<"U+10CDB", <<"U+10C9B">>>>,
    <<"U+10CDC", <<"U+10C9C">>>>, <<"U+10CDD", <<"U+10C9D">>>>,
    <<"U+10CDE", <<"U+10C9E">>>>, <<"U+10CDF", <<"U+10C9F">>>>,
    <<"U+10CE0", <<"U+10CA0">>>>, <<"U+10CE1", <<"U+10CA1">>>>,
    <<"U+10CE2", <<"U+10CA2">>>>, <<"U+10CE3", <<"U+10CA3">>>>,
    <<"U+10CE4", <<"U+10CA4">>>>, <<"U+10CE5", <<"U+10CA5">>>>,
    <<"U+10CE6", <<"U+10CA6">>>>, <<"U+10CE7", <<"U+10CA7">>>>,
    <<"U+10CE8", <<"U+10CA8">>>>, <<"U+10CE9", <<"U+10CA9">>>>,
    <<"U+10CEA", <<"U+10CAA">>>>, <<"U+10CEB", <<"U+10CAB">>>>,
    <<"U+10CEC", <<"U+10CAC">>>>, <<"U+10CED", <<"U+10CAD">>>>,
    <<"U+10CEE", <<"U+10CAE">>>>, <<"U+10CEF", <<"U+10CAF">>>>,
    <<"U+10CF0", <<"U+10CB0">>>>, <<"U+10CF1", <<"U+10CB1">>>>,
    <<"U+10CF2", <<"U+10CB2">>>>, <<"U+118C0", <<"U+118A0">>>>,
    <<"U+118C1", <<"U+118A1">>>>, <<"U+118C2", <<"U+118A2">>>>,
    <<"U+118C3", <<"U+118A3">>>>, <<"U+118C4", <<"U+118A4">>>>,
    <<"U+118C5", <<"U+118A5">>>>, <<"U+118C6", <<"U+118A6">>>>,
    <<"U+118C7", <<"U+118A7">>>>, <<"U+118C8", <<"U+118A8">>>>,
    <<"U+118C9", <<"U+118A9">>>>, <<"U+118CA", <<"U+118AA">>>>,
    <<"U+118CB", <<"U+118AB">>>>, <<"U+118CC", <<"U+118AC">>>>,
    <<"U+118CD", <<"U+118AD">>>>, <<"U+118CE", <<"U+118AE">>>>,
    <<"U+118CF", <<"U+118AF">>>>, <<"U+118D0", <<"U+118B0">>>>,
    <<"U+118D1", <<"U+118B1">>>>, <<"U+118D2", <<"U+118B2">>>>,
    <<"U+118D3", <<"U+118B3">>>>, <<"U+118D4", <<"U+118B4">>>>,
    <<"U+118D5", <<"U+118B5">>>>, <<"U+118D6", <<"U+118B6">>>>,
    <<"U+118D7", <<"U+118B7">>>>, <<"U+118D8", <<"U+118B8">>>>,
    <<"U+118D9", <<"U+118B9">>>>, <<"U+118DA", <<"U+118BA">>>>,
    <<"U+118DB", <<"U+118BB">>>>, <<"U+118DC", <<"U+118BC">>>>,
    <<"U+118DD", <<"U+118BD">>>>, <<"U+118DE", <<"U+118BE">>>>,
    <<"U+118DF", <<"U+118BF">>>>, <<"U+16E60", <<"U+16E40">>>>,
    <<"U+16E61", <<"U+16E41">>>>, <<"U+16E62", <<"U+16E42">>>>,
    <<"U+16E63", <<"U+16E43">>>>, <<"U+16E64", <<"U+16E44">>>>,
    <<"U+16E65", <<"U+16E45">>>>, <<"U+16E66", <<"U+16E46">>>>,
    <<"U+16E67", <<"U+16E47">>>>, <<"U+16E68", <<"U+16E48">>>>,
    <<"U+16E69", <<"U+16E49">>>>, <<"U+16E6A", <<"U+16E4A">>>>,
    <<"U+16E6B", <<"U+16E4B">>>>, <<"U+16E6C", <<"U+16E4C">>>>,
    <<"U+16E6D", <<"U+16E4D">>>>, <<"U+16E6E", <<"U+16E4E">>>>,
    <<"U+16E6F", <<"U+16E4F">>>>, <<"U+16E70", <<"U+16E50">>>>,
    <<"U+16E71", <<"U+16E51">>>>, <<"U+16E72", <<"U+16E52">>>>,
    <<"U+16E73", <<"U+16E53">>>>, <<"U+16E74", <<"U+16E54">>>>,
    <<"U+16E75", <<"U+16E55">>>>, <<"U+16E76", <<"U+16E56">>>>,
    <<"U+16E77", <<"U+16E57">>>>, <<"U+16E78", <<"U+16E58">>>>,
    <<"U+16E79", <<"U+16E59">>>>, <<"U+16E7A", <<"U+16E5A">>>>,
    <<"U+16E7B", <<"U+16E5B">>>>, <<"U+16E7C", <<"U+16E5C">>>>,
    <<"U+16E7D", <<"U+16E5D">>>>, <<"U+16E7E", <<"U+16E5E">>>>,
    <<"U+16E7F", <<"U+16E5F">>>>, <<"U+1E922", <<"U+1E900">>>>,
    <<"U+1E923", <<"U+1E901">>>>, <<"U+1E924", <<"U+1E902">>>>,
    <<"U+1E925", <<"U+1E903">>>>, <<"U+1E926", <<"U+1E904">>>>,
    <<"U+1E927", <<"U+1E905">>>>, <<"U+1E928", <<"U+1E906">>>>,
    <<"U+1E929", <<"U+1E907">>>>, <<"U+1E92A", <<"U+1E908">>>>,
    <<"U+1E92B", <<"U+1E909">>>>, <<"U+1E92C", <<"U+1E90A">>>>,
    <<"U+1E92D", <<"U+1E90B">>>>, <<"U+1E92E", <<"U+1E90C">>>>,
    <<"U+1E92F", <<"U+1E90D">>>>, <<"U+1E930", <<"U+1E90E">>>>,
    <<"U+1E931", <<"U+1E90F">>>>, <<"U+1E932", <<"U+1E910">>>>,
    <<"U+1E933", <<"U+1E911">>>>, <<"U+1E934", <<"U+1E912">>>>,
    <<"U+1E935", <<"U+1E913">>>>, <<"U+1E936", <<"U+1E914">>>>,
    <<"U+1E937", <<"U+1E915">>>>, <<"U+1E938", <<"U+1E916">>>>,
    <<"U+1E939", <<"U+1E917">>>>, <<"U+1E93A", <<"U+1E918">>>>,
    <<"U+1E93B", <<"U+1E919">>>>, <<"U+1E93C", <<"U+1E91A">>>>,
    <<"U+1E93D", <<"U+1E91B">>>>, <<"U+1E93E", <<"U+1E91C">>>>,
    <<"U+1E93F", <<"U+1E91D">>>>, <<"U+1E940", <<"U+1E91E">>>>,
    <<"U+1E941", <<"U+1E91F">>>>, <<"U+1E942", <<"U+1E920">>>>,
    <<"U+1E943", <<"U+1E921">>>> }

NonAsciiLower == {p[1] : p \in NonAsciiUpper}

\* c.upper() for one character c.
upper_char(c) ==
  IF IsIn(LowerCase, c) THEN <<UpperCase[IndexOf(LowerCase, c)]>>
  ELSE IF c \in NonAsciiLower
  THEN (CHOOSE p \in NonAsciiUpper : p[1] = c)[2]
  ELSE <<c>>

\* str.upper()
RECURSIVE upper(_)
upper(s) ==
  IF s = <<>> THEN <<>> ELSE upper_char(Head(s)) \o upper(Tail(s))

\* The characters of str.isspace(): U+0009..U+000D, U+001C..U+001F, the
\* space, U+0085, U+00A0, U+1680, U+2000..U+200A, U+2028, U+2029, U+202F,
\* U+205F, U+3000.
SpaceChars ==
  {    "\t", "\n", "", "\f", "\r", "", "", "", "", " ", "", " ", " ",
    "U+2000", "U+2001", "U+2002", "U+2003", "U+2004", "U+2005", "U+2006",
    "U+2007", "U+2008", "U+2009", "U+200A", "U+2028", "U+2029", "U+202F",
    "U+205F", "U+3000" }

IsSpace(c) == c \in SpaceChars

RECURSIVE lstrip(_)
lstrip(s) ==
  IF s # <<>> /\ IsSpace(Head(s)) THEN lstrip(Tail(s)) ELSE s

RECURSIVE rstrip(_)
rstrip(s) ==
  IF s # <<>> /\ IsSpace(s[Len(s)]) THEN rstrip(SubSeq(s, 1, Len(s) - 1))
  ELSE s

\* str.strip()
strip(s) == rstrip(lstrip(s))

\* The decimal digits int() reads besides the ASCII ones: every run of ten
\* characters of Unicode category Nd, each from its zero to its nine.
NonAsciiDigits ==
  <<<<"U+0660", "U+0661", "U+0662", "U+0663", "U+0664", "U+0665", "U+0666", "U+0667", "U+0668", "U+0669">>,
    <<"۰", "۱", "۲", "۳", "۴", "۵", "۶", "۷", "۸", "۹">>,
    <<"߀", "߁", "߂", "߃", "߄", "߅", "߆", "߇", "߈", "߉">>,
    <<"U+0966", "U+0967", "U+0968", "U+0969", "U+096A", "U+096B", "U+096C", "U+096D", "U+096E", "U+096F">>,
    <<"০", "১", "২", "৩", "৪", "৫", "৬", "৭", "৮", "৯">>,
    <<"U+0A66", "U+0A67", "U+0A68", "U+0A69", "U+0A6A", "U+0A6B", "U+0A6C", "U+0A6D", "U+0A6E", "U+0A6F">>,
    <<"૦", "૧", "૨", "૩", "૪", "૫", "૬", "૭", "૮", "૯">>,
    <<"U+0B66", "U+0B67", "U+0B68", "U+0B69", "U+0B6A", "U+0B6B", "U+0B6C", "U+0B6D", "U+0B6E", "U+0B6F">>,
    <<"௦", "௧", "௨", "௩", "௪", "௫", "௬", "௭", "௮", "௯">>,
    <<"U+0C66", "U+0C67", "U+0C68", "U+0C69", "U+0C6A", "U+0C6B", "U+0C6C", "U+0C6D", "U+0C6E", "U+0C6F">>,
    <<"೦", "೧", "೨", "೩", "೪", "೫", "೬", "೭", "೮", "೯">>,
    <<"U+0D66", "U+0D67", "U+0D68", "U+0D69", "U+0D6A", "U+0D6B", "U+0D6C", "U+0D6D", "U+0D6E", "U+0D6F">>,
    <<"෦", "෧", "෨", "෩", "෪", "෫", "෬", "෭", "෮", "෯">>,
    <<"U+0E50", "U+0E51", "U+0E52", "U+0E53", "U+0E54", "U+0E55", "U+0E56", "U+0E57", "U+0E58", "U+0E59">>,
    <<"໐", "໑", "໒", "໓", "໔", "໕", "໖", "໗", "໘", "໙">>,
    <<"U+0F20", "U+0F21", "U+0F22", "U+0F23", "U+0F24", "U+0F25", "U+0F26", "U+0F27", "U+0F28", "U+0F29">>,
    <<"U+1040", "U+1041", "U+1042", "U+1043", "U+1044", "U+1045", "U+1046", "U+1047", "U+1048", "U+1049">>,
    <<"႐", "႑", "႒", "႓", "႔", "႕", "႖", "႗", "႘", "႙">>,
    <<"០", "១", "២", "៣", "៤", "៥", "៦", "៧", "៨", "៩">>,
    <<"U+1810", "U+1811", "U+1812", "U+1813", "U+1814", "U+1815", "U+1816", "U+1817", "U+1818", "U+1819">>,
    <<"U+1946", "U+1947", "U+1948", "U+1949", "U+194A", "U+194B", "U+194C", "U+194D", "U+194E", "U+194F">>,
    <<"᧐", "᧑", "᧒", "᧓", "᧔", "᧕", "᧖", "᧗", "᧘", "᧙">>,
    <<"᪀", "᪁", "᪂", "᪃", "᪄", "᪅", "᪆", "᪇", "᪈", "᪉">>,
    <<"᪐", "᪑", "᪒", "᪓", "᪔", "᪕", "᪖", "᪗", "᪘", "᪙">>,
    <<"U+1B50", "U+1B51", "U+1B52", "U+1B53", "U+1B54", "U+1B55", "U+1B56", "U+1B57", "U+1B58", "U+1B59">>,
    <<"᮰", "᮱", "᮲", "᮳", "᮴", "᮵", "᮶", "᮷", "᮸", "᮹">>,
    <<"U+1C40", "U+1C41", "U+1C42", "U+1C43", "U+1C44", "U+1C45", "U+1C46", "U+1C47", "U+1C48", "U+1C49">>,
    <<"U+1C50", "U+1C51", "U+1C52", "U+1C53", "U+1C54", "U+1C55", "U+1C56", "U+1C57", "U+1C58", "U+1C59">>,
    <<"U+A620", "U+A621", "U+A622", "U+A623", "U+A624", "U+A625", "U+A626", "U+A627", "U+A628", "U+A629">>,
    <<"꣐", "꣑", "꣒", "꣓", "꣔", "꣕", "꣖", "꣗", "꣘", "꣙">>,
    <<"U+A900", "U+A901", "U+A902", "U+A903", "U+A904", "U+A905", "U+A906", "U+A907", "U+A908", "U+A909">>,
    <<"꧐", "꧑", "꧒", "꧓", "꧔", "꧕", "꧖", "꧗", "꧘", "꧙">>,
    <<"꧰", "꧱", "꧲", "꧳", "꧴", "꧵", "꧶", "꧷", "꧸", "꧹">>,
    <<"U+AA50", "U+AA51", "U+AA52", "U+AA53", "U+AA54", "U+AA55", "U+AA56", "U+AA57", "U+AA58", "U+AA59">>,
    <<"꯰", "꯱", "꯲", "꯳", "꯴", "꯵", "꯶", "꯷", "꯸", "꯹">>,
    <<"U+FF10", "U+FF11", "U+FF12", "U+FF13", "U+FF14", "U+FF15", "U+FF16", "U+FF17", "U+FF18", "U+FF19">>,
    <<"U+104A0", "U+104A1", "U+104A2", "U+104A3", "U+104A4", "U+104A5", "U+104A6", "U+104A7", "U+104A8", "U+104A9">>,
    <<"U+10D30", "U+10D31", "U+10D32", "U+10D33", "U+10D34", "U+10D35", "U+10D36", "U+10D37", "U+10D38", "U+10D39">>,
    <<"U+11066", "U+11067", "U+11068", "U+11069", "U+1106A", "U+1106B", "U+1106C", "U+1106D", "U+1106E", "U+1106F">>,
    <<"U+110F0", "U+110F1", "U+110F2", "U+110F3", "U+110F4", "U+110F5", "U+110F6", "U+110F7", "U+110F8", "U+110F9">>,
    <<"U+11136", "U+11137", "U+11138", "U+11139", "U+1113A", "U+1113B", "U+1113C", "U+1113D", "U+1113E", "U+1113F">>,
    <<"U+111D0", "U+111D1", "U+111D2", "U+111D3", "U+111D4", "U+111D5", "U+111D6", "U+111D7", "U+111D8", "U+111D9">>,
    <<"U+112F0", "U+112F1", "U+112F2", "U+112F3", "U+112F4", "U+112F5", "U+112F6", "U+112F7", "U+112F8", "U+112F9">>,
    <<"U+11450", "U+11451", "U+11452", "U+11453", "U+11454", "U+11455", "U+11456", "U+11457", "U+11458", "U+11459">>,
    <<"U+114D0", "U+114D1", "U+114D2", "U+114D3", "U+114D4", "U+114D5", "U+114D6", "U+114D7", "U+114D8", "U+114D9">>,
    <<"U+11650", "U+11651", "U+11652", "U+11653", "U+11654", "U+11655", "U+11656", "U+11657", "U+11658", "U+11659">>,
    <<"U+116C0", "U+116C1", "U+116C2", "U+116C3", "U+116C4", "U+116C5", "U+116C6", "U+116C7", "U+116C8", "U+116C9">>,
    <<"U+11730", "U+11731", "U+11732", "U+11733", "U+11734", "U+11735", "U+11736", "U+11737", "U+11738", "U+11739">>,
    <<"U+118E0", "U+118E1", "U+118E2", "U+118E3", "U+118E4", "U+118E5", "U+118E6", "U+118E7", "U+118E8", "U+118E9">>,
    <<"U+11950", "U+11951", "U+11952", "U+11953", "U+11954", "U+11955", "U+11956", "U+11957", "U+11958", "U+11959">>,
    <<"U+11C50", "U+11C51", "U+11C52", "U+11C53", "U+11C54", "U+11C55", "U+11C56", "U+11C57", "U+11C58", "U+11C59">>,
    <<"U+11D50", "U+11D51", "U+11D52", "U+11D53", "U+11D54", "U+11D55", "U+11D56", "U+11D57", "U+11D58", "U+11D59">>,
    <<"U+11DA0", "U+11DA1", "U+11DA2", "U+11DA3", "U+11DA4", "U+11DA5", "U+11DA6", "U+11DA7", "U+11DA8", "U+11DA9">>,
    <<"U+16A60", "U+16A61", "U+16A62", "U+16A63", "U+16A64", "U+16A65", "U+16A66", "U+16A67", "U+16A68", "U+16A69">>,
    <<"U+16AC0", "U+16AC1", "U+16AC2", "U+16AC3", "U+16AC4", "U+16AC5", "U+16AC6", "U+16AC7", "U+16AC8", "U+16AC9">>,
    <<"U+16B50", "U+16B51", "U+16B52", "U+16B53", "U+16B54", "U+16B55", "U+16B56", "U+16B57", "U+16B58", "U+16B59">>,
    <<"U+1D7CE", "U+1D7CF", "U+1D7D0", "U+1D7D1", "U+1D7D2", "U+1D7D3", "U+1D7D4", "U+1D7D5", "U+1D7D6", "U+1D7D7">>,
    <<"U+1D7D8", "U+1D7D9", "U+1D7DA", "U+1D7DB", "U+1D7DC", "U+1D7DD", "U+1D7DE", "U+1D7DF", "U+1D7E0", "U+1D7E1">>,
    <<"U+1D7E2", "U+1D7E3", "U+1D7E4", "U+1D7E5", "U+1D7E6", "U+1D7E7", "U+1D7E8", "U+1D7E9", "U+1D7EA", "U+1D7EB">>,
    <<"U+1D7EC", "U+1D7ED", "U+1D7EE", "U+1D7EF", "U+1D7F0", "U+1D7F1", "U+1D7F2", "U+1D7F3", "U+1D7F4", "U+1D7F5">>,
    <<"U+1D7F6", "U+1D7F7", "U+1D7F8", "U+1D7F9", "U+1D7FA", "U+1D7FB", "U+1D7FC", "U+1D7FD", "U+1D7FE", "U+1D7FF">>,
    <<"U+1E140", "U+1E141", "U+1E142", "U+1E143", "U+1E144", "U+1E145", "U+1E146", "U+1E147", "U+1E148", "U+1E149">>,
    <<"U+1E2F0", "U+1E2F1", "U+1E2F2", "U+1E2F3", "U+1E2F4", "U+1E2F5", "U+1E2F6", "U+1E2F7", "U+1E2F8", "U+1E2F9">>,
    <<"U+1E950", "U+1E951", "U+1E952", "U+1E953", "U+1E954", "U+1E955", "U+1E956", "U+1E957", "U+1E958", "U+1E959">>,
    <<"U+1FBF0", "U+1FBF1", "U+1FBF2", "U+1FBF3", "U+1FBF4", "U+1FBF5", "U+1FBF6", "U+1FBF7", "U+1FBF8", "U+1FBF9">> >>

NonAsciiDigitChars ==
  {NonAsciiDigits[r][i] : r \in 1..Len(NonAsciiDigits), i \in 1..10}

\* c is a decimal digit.
IsDigit(c) == IsIn(DigitChars, c) \/ c \in NonAsciiDigitChars

\* The value 0..9 of a decimal digit.
DigitValue(c) ==
  IF IsIn(DigitChars, c) THEN IndexOf(DigitChars, c) - 1
  ELSE (CHOOSE i \in 1..10 :
          \E r \in 1..Len(NonAsciiDigits) : NonAsciiDigits[r][i] = c) - 1

\* Value of a run of decimal digits and single underscores, read left to
\* right.
RECURSIVE DigitsValue(_, _)
DigitsValue(s, acc) ==
  IF s = <<>> THEN acc
  ELSE IF Head(s) = "_" THEN DigitsValue(Tail(s), acc)
  ELSE DigitsValue(Tail(s), 10 * acc + DigitValue(Head(s)))

\* The digit run from its first digit other than zero on (<<>> when it has
\* none): the leading zeros and underscores add nothing to the value.
Significant(s) ==
  LET nz == {i \in 1..Len(s) : IsDigit(s[i]) /\ DigitValue(s[i]) # 0}
  IN  IF nz = {} THEN <<>>
      ELSE SubSeq(s, CHOOSE i \in nz : \A j \in nz : i <= j, Len(s))

\* sys.get_int_max_str_digits(): the most decimal digits int() converts.
MaxStrDigits == 4300

\* The digit part int() accepts: digits, with single underscores between
\* digits only, and no more than MaxStrDigits digits (the underscores are
\* not counted, leading zeros are).
IsDigitRun(s) ==
  /\ s # <<>>
  /\ Cardinality({i \in 1..Len(s) : IsDigit(s[i])}) <= MaxStrDigits
  /\ IsDigit(s[1])
  /\ IsDigit(s[Len(s)])
  /\ \A i \in 1..Len(s) : IsDigit(s[i]) \/ s[i] = "_"
  /\ \A i \in 1..(Len(s) - 1) : ~(s[i] = "_" /\ s[i + 1] = "_")

\* The space characters int() drops around the number: those of
\* str.isspace() except U+001C..U+001F.
IsIntSpace(c) == IsSpace(c) /\ c \notin {"", "", "", ""}

RECURSIVE int_lstrip(_)
int_lstrip(s) ==
  IF s # <<>> /\ IsIntSpace(Head(s)) THEN int_lstrip(Tail(s)) ELSE s

RECURSIVE int_rstrip(_)
int_rstrip(s) ==
  IF s # <<>> /\ IsIntSpace(s[Len(s)])
  THEN int_rstrip(SubSeq(s, 1, Len(s) - 1))
  ELSE s

\* int(s) in base 10: surrounding whitespace, an optional sign, a digit
\* run.  ok is FALSE where Python raises ValueError.
int(s) ==
  LET t      == int_rstrip(int_lstrip(s))
      signed == t # <<>> /\ t[1] \in {"+", "-"}
      body   == IF signed THEN Tail(t) ELSE t
  IN  IF IsDigitRun(body)
      THEN [ok  |-> TRUE,
            val |-> IF signed /\ t[1] = "-"
                    THEN 0 - DigitsValue(Significant(body), 0)
                    ELSE DigitsValue(Significant(body), 0)]
      ELSE [ok |-> FALSE, val |-> 0]

\* ------------------------------------------------------------------------
\* src/assembler.py
\* ------------------------------------------------------------------------

INSTR_SIZE == 4

OP_LOAD_CONST == 13

OP_READ_MEM == 26

OP_WRITE_MEM == 15

OP_POW == 22

\* The mnemonics, as the str each is compared with.
LOAD_CONST == <<"L","O","A","D","_","C","O","N","S","T">>

READ_MEM == <<"R","E","A","D","_","M","E","M">>

WRITE_MEM == <<"W","R","I","T","E","_","M","E","M">>

POW == <<"P","O","W">>

\* No exception.
NoErr == [exc |-> "none", where |-> "none", line |-> 0]

Raise(exc, where, line) == [exc |-> exc, where |-> where, line |-> line]

\* Mutant: the bytes in big-endian order.
to_bytes_big(val) ==
  [k \in 1..INSTR_SIZE |->
     BitsToNat([i \in 1..8 |-> BitAt(val, 8 * (INSTR_SIZE - k) + i)])]

\* int.to_bytes(INSTR_SIZE, "little") of a value below 2^32.
to_bytes(val) ==
  [k \in 1..INSTR_SIZE |->
     BitsToNat([i \in 1..8 |-> BitAt(val, 8 * (k - 1) + i)])]

\* encode_instr: the 4 bytes of one IR record; exc is ValueError for a
\* tag that is none of the four.
encode_instr(ir) ==
  IF ir.cmd = "LOAD_CONST" THEN
    [err |-> NoErr,
     bytes |-> to_bytes(pack_fields(<< <<OP_LOAD_CONST, 0, 5>>,
                                       <<ir.B, 5, 7>>,
                                       <<ir.C, 12, 11>> >>))]
  ELSE IF ir.cmd = "READ_MEM" THEN
    [err |-> NoErr,
     bytes |-> to_bytes(pack_fields(<< <<OP_READ_MEM, 0, 5>>,
                                       <<ir.B, 5, 7>>,
                                       <<ir.C, 12, 7>>,
                                       <<ir.D, 19, 6>> >>))]
  ELSE IF ir.cmd = "WRITE_MEM" THEN
    [err |-> NoErr,
     bytes |-> to_bytes(pack_fields(<< <<OP_WRITE_MEM, 0, 5>>,
                                       <<ir.B, 5, 7>>,
                                       <<ir.C, 12, 14>> >>))]
  ELSE IF ir.cmd = "POW" THEN
    [err |-> NoErr,
     bytes |-> to_bytes(pack_fields(<< <<OP_POW, 0, 5>>,
                                       <<ir.B, 5, 7>>,
                                       <<ir.C, 12, 7>>,
                                       <<ir.D, 19, 6>>,
                                       <<ir.E, 25, 7>> >>))]
  ELSE [err |-> Raise("ValueError", "Unknown IR command", 0), bytes |-> <<>>]

\* The arguments of a row from position k on, each through int(); ok is
\* FALSE as soon as one raises.
RECURSIVE int_args(_, _)
int_args(row, k) ==
  IF k > Len(row) THEN [ok |-> TRUE, vals |-> <<>>]
  ELSE LET h == int(row[k])
       IN  IF ~h.ok THEN [ok |-> FALSE, vals |-> <<>>]
           ELSE LET r == int_args(row, k + 1)
                IN  [ok |-> r.ok, vals |-> <<h.val>> \o r.vals]

\* One iteration of to_ir's loop: the record of row number idx (from 0), or
\* the exception it raises.
to_ir_row(row, idx) ==
  IF row = <<>> THEN [err |-> Raise("IndexError", "row[0]", idx + 1), rec |-> <<>>]
  ELSE
  LET cmd  == upper(row[1])
      n    == IF cmd = LOAD_CONST \/ cmd = WRITE_MEM THEN 3
              ELSE IF cmd = READ_MEM THEN 4 ELSE 5
      a    == int_args(row, 2)
  IN  IF cmd \notin {LOAD_CONST, READ_MEM, WRITE_MEM, POW}
      THEN [err |-> Raise("ValueError", "Unknown command", idx + 1), rec |-> <<>>]
      ELSE IF Len(row) # n
      THEN [err |-> Raise("ValueError", "expects args", idx + 1), rec |-> <<>>]
      ELSE IF ~a.ok
      THEN [err |-> Raise("ValueError", "int()", idx + 1), rec |-> <<>>]
      ELSE IF cmd = LOAD_CONST
      THEN [err |-> NoErr,
            rec |-> [cmd |-> "LOAD_CONST", B |-> a.vals[1], C |-> a.vals[2]]]
      ELSE IF cmd = READ_MEM
      THEN [err |-> NoErr,
            rec |-> [cmd |-> "READ_MEM", B |-> a.vals[1], C |-> a.vals[2],
                     D |-> a.vals[3]]]
      ELSE IF cmd = WRITE_MEM
      THEN [err |-> NoErr,
            rec |-> [cmd |-> "WRITE_MEM", B |-> a.vals[1], C |-> a.vals[2]]]
      ELSE [err |-> NoErr,
            rec |-> [cmd |-> "POW", B |-> a.vals[1], C |-> a.vals[2],
                     D |-> a.vals[3], E |-> a.vals[4]]]

\* Mutant: when a row raises, the records made so far are returned.
RECURSIVE to_ir_loop_partial(_, _, _)
to_ir_loop_partial(csv_rows, idx, ir) ==
  IF idx >= Len(csv_rows) THEN [err |-> NoErr, ir |-> ir]
  ELSE LET r == to_ir_row(csv_rows[idx + 1], idx)
       IN  IF r.err # NoErr THEN [err |-> r.err, ir |-> ir]
           ELSE to_ir_loop_partial(csv_rows, idx + 1, Append(ir, r.rec))

\* Mutant: each record is put in front of the list (ir.insert(0, ...)).
RECURSIVE to_ir_loop_prepend(_, _, _)
to_ir_loop_prepend(csv_rows, idx, ir) ==
  IF idx >= Len(csv_rows) THEN [err |-> NoErr, ir |-> ir]
  ELSE LET r == to_ir_row(csv_rows[idx + 1], idx)
       IN  IF r.err # NoErr THEN [err |-> r.err, ir |-> <<>>]
           ELSE to_ir_loop_prepend(csv_rows, idx + 1, <<r.rec>> \o ir)

\* to_ir: the loop over the rows from row idx on, ir the records so far.
\* The list is returned only when no row raised.
RECURSIVE to_ir_loop(_, _, _)
to_ir_loop(csv_rows, idx, ir) ==
  IF idx >= Len(csv_rows) THEN [err |-> NoErr, ir |-> ir]
  ELSE LET r == to_ir_row(csv_rows[idx + 1], idx)
       IN  IF r.err # NoErr THEN [err |-> r.err, ir |-> <<>>]
           ELSE to_ir_loop(csv_rows, idx + 1, Append(ir, r.rec))

to_ir(csv_rows) == to_ir_loop(csv_rows, 0, <<>>)

\* [c.strip() for c in row]
strip_all(row) == [k \in 1..Len(row) |-> strip(row[k])]

\* Mutant: the rows are filtered but their fields are not stripped.
RECURSIVE parse_csv_program_no_strip(_)
parse_csv_program_no_strip(reader) ==
  IF reader = <<>> THEN <<>>
  ELSE LET row  == Head(reader)
           rest == parse_csv_program_no_strip(Tail(reader))
       IN  IF row = <<>> THEN rest
           ELSE LET first == strip(row[1])
                IN  IF first = <<>> \/ first[1] = "#" THEN rest
                    ELSE <<row>> \o rest

\* parse_csv_program, from the rows csv.reader yields for the file (a list
\* of fields per line, the empty list for an empty line): rows that are
\* empty, or whose first field is blank or starts with '#' once stripped,
\* are skipped; every field of the others is stripped.
RECURSIVE parse_csv_program(_)
parse_csv_program(reader) ==
  IF reader = <<>> THEN <<>>
  ELSE LET row  == Head(reader)
           rest == parse_csv_program(Tail(reader))
       IN  IF row = <<>> THEN rest
           ELSE LET first == strip(row[1])
                IN  IF first = <<>> \/ first[1] = "#" THEN rest
                    ELSE LET stripped == strip_all(row)
                         IN  IF Len(stripped) = 0 THEN rest
                             ELSE <<stripped>> \o rest

\* Mutant: each encoding is put in front of the bytes made so far.
RECURSIVE assemble_reversed(_)
assemble_reversed(ir_list) ==
  IF ir_list = <<>> THEN [err |-> NoErr, bytes |-> <<>>]
  ELSE LET h == encode_instr(Head(ir_list))
       IN  IF h.err # NoErr THEN [err |-> h.err, bytes |-> <<>>]
           ELSE LET r == assemble_reversed(Tail(ir_list))
                IN  [err |-> r.err,
                     bytes |-> IF r.err = NoErr THEN r.bytes \o h.bytes
                               ELSE <<>>]

\* assemble: the encodings of the records, concatenated in order.
RECURSIVE assemble(_)
assemble(ir_list) ==
  IF ir_list = <<>> THEN [err |-> NoErr, bytes |-> <<>>]
  ELSE LET h == encode_instr(Head(ir_list))
       IN  IF h.err # NoErr THEN [err |-> h.err, bytes |-> <<>>]
           ELSE LET r == assemble(Tail(ir_list))
                IN  [err |-> r.err,
                     bytes |-> IF r.err = NoErr THEN h.bytes \o r.bytes
                               ELSE <<>>]

\* ------------------------------------------------------------------------
\* Bounds of the model
\* ------------------------------------------------------------------------

\* Longest textual program drawn from RowPool.
MaxRows == 3

\* Longest raw byte stream, in words, drawn from RawWordPool.
MaxRawWords == 2

\* The memory sizes and the register count of the drawn runs.
SmallMem == 4

TinyMem == 2

SmallRegs == 3

\* ------------------------------------------------------------------------
\* src/interpreter.py
\* ------------------------------------------------------------------------

\* len() of the register list.
len(list) == Cardinality(DOMAIN list)

\* len() of the memory list.
mem_len(mem) == mem.size

\* mem[a] for 0 <= a < len(mem).
cell(mem, a) == IF a \in DOMAIN mem.cells THEN mem.cells[a] ELSE <<>>

\* mem[a] = v for 0 <= a < len(mem).
store(mem, a, v) ==
  [mem EXCEPT !.cells =
     [x \in (IF v = <<>> THEN DOMAIN mem.cells \ {a}
             ELSE DOMAIN mem.cells \cup {a}) |->
        IF x = a THEN v ELSE mem.cells[x]]]

\* The memory list [0] * size, holding the words w[1..Len(w)] at
\* 0..Len(w)-1.  A negative size gives the empty list.
mem_of(size, w) ==
  LET n == IF size < 0 THEN 0 ELSE size
  IN  [size  |-> n,
       cells |-> [a \in {i \in 0..(Len(w) - 1) : i < n /\ w[i + 1] # <<>>} |->
                    w[a + 1]]]

\* [0] * n
zeros(n) == [i \in 0..(n - 1) |-> <<>>]

\* Mutant: int.from_bytes(chunk, "little", signed=True).  A chunk with its
\* top bit set is the negative number u - 2^n, u the unsigned reading.
from_bytes_signed(chunk) ==
  LET b == [i \in 1..(8 * Len(chunk)) |->
              (chunk[((i - 1) \div 8) + 1] \div (2 ^ ((i - 1) % 8))) % 2]
  IN  IF b # <<>> /\ b[Len(b)] = 1
      THEN Negate(Inc(Norm([i \in 1..Len(b) |-> 1 - b[i]])))
      ELSE Norm(b)

\* int.from_bytes(chunk, "little")
from_bytes(chunk) ==
  Norm([i \in 1..(8 * Len(chunk)) |->
          (chunk[((i - 1) \div 8) + 1] \div (2 ^ ((i - 1) % 8))) % 2])

\* program_words: one word per INSTR_SIZE bytes, in order.
program_words_of(code_bytes) ==
  [k \in 1..(Len(code_bytes) \div INSTR_SIZE) |->
     from_bytes(SubSeq(code_bytes, INSTR_SIZE * (k - 1) + 1, INSTR_SIZE * k))]

\* (cmd_int >> start) & mask(width), a field of at most 14 bits, as the
\* index or small integer it is used as (cmd_int of either sign).
field(cmd_int, start, width) ==
  BitsToNat(BitAnd(ShiftRight(cmd_int, start), mask(width)))

\* _check_addr: TRUE when the address is refused, addr < 0 or
\* addr >= mem_size.
addr_out_of_bounds(addr, mem_size) ==
  IsNeg(addr) \/ ~LessThanInt(addr, mem_size)

\* What _check_addr raises for a refused address: IndexError, whose message
\* prints the address; an address of more than MaxStrDigits decimal digits
\* (its sign not counted) cannot be printed, and the f-string raises
\* ValueError before the IndexError exists.
addr_error(addr, what) ==
  IF MoreDigitsThan(Abs(addr), MaxStrDigits)
  THEN Raise("ValueError", what, 0)
  ELSE Raise("IndexError", what, 0)

\* A register index is refused.
reg_out_of_bounds(idx, regs) == idx < 0 \/ idx >= len(regs)

\* The result of one instruction: the registers and memory after it and
\* the exception it raised, if any.
Outcome(regs, mem, err) == [regs |-> regs, mem |-> mem, err |-> err]

\* Mutant: the register index is not checked.
exec_LOAD_CONST_unchecked(cmd_int, regs, mem) ==
  LET B == field(cmd_int, 5, 7)
      C == field(cmd_int, 12, 11)
  IN  Outcome([regs EXCEPT ![B] = NatToBits(C)], mem, NoErr)

\* Mutant: the constant is read from all the bits above bit 11.
exec_LOAD_CONST_wide(cmd_int, regs, mem) ==
  LET B == field(cmd_int, 5, 7)
      C == field(cmd_int, 12, 20)
  IN  IF reg_out_of_bounds(B, regs)
      THEN Outcome(regs, mem, Raise("IndexError", "LOAD_CONST: register B", 0))
      ELSE Outcome([regs EXCEPT ![B] = NatToBits(C)], mem, NoErr)

exec_LOAD_CONST(cmd_int, regs, mem) ==
  LET B == field(cmd_int, 5, 7)
      C == field(cmd_int, 12, 11)
  IN  IF reg_out_of_bounds(B, regs)
      THEN Outcome(regs, mem, Raise("IndexError", "LOAD_CONST: register B", 0))
      ELSE Outcome([regs EXCEPT ![B] = NatToBits(C)], mem, NoErr)

\* Mutant: B is taken as the base address itself, not as the register
\* holding it.
exec_READ_MEM_direct(cmd_int, regs, mem) ==
  LET B == field(cmd_int, 5, 7)
      C == field(cmd_int, 12, 7)
      D == field(cmd_int, 19, 6)
  IN  IF reg_out_of_bounds(B, regs)
      THEN Outcome(regs, mem, Raise("IndexError", "READ_MEM: register B", 0))
      ELSE IF reg_out_of_bounds(C, regs)
      THEN Outcome(regs, mem, Raise("IndexError", "READ_MEM: register C", 0))
      ELSE LET addr == Add(NatToBits(B), NatToBits(D))
           IN  IF addr_out_of_bounds(addr, mem_len(mem))
               THEN Outcome(regs, mem, addr_error(addr, "READ_MEM"))
               ELSE Outcome([regs EXCEPT ![C] = cell(mem, BitsToNat(addr))], mem,
                            NoErr)

\* Mutant: the destination register is cleared before the address is
\* checked.
exec_READ_MEM_clear_first(cmd_int, regs, mem) ==
  LET B == field(cmd_int, 5, 7)
      C == field(cmd_int, 12, 7)
      D == field(cmd_int, 19, 6)
  IN  IF reg_out_of_bounds(B, regs)
      THEN Outcome(regs, mem, Raise("IndexError", "READ_MEM: register B", 0))
      ELSE IF reg_out_of_bounds(C, regs)
      THEN Outcome(regs, mem, Raise("IndexError", "READ_MEM: register C", 0))
      ELSE LET addr == Add(regs[B], NatToBits(D))
           IN  IF addr_out_of_bounds(addr, mem_len(mem))
               THEN Outcome([regs EXCEPT ![C] = <<>>], mem,
                            addr_error(addr, "READ_MEM"))
               ELSE Outcome([regs EXCEPT ![C] = cell(mem, BitsToNat(addr))], mem,
                            NoErr)

exec_READ_MEM(cmd_int, regs, mem) ==
  LET B == field(cmd_int, 5, 7)
      C == field(cmd_int, 12, 7)
      D == field(cmd_int, 19, 6)
  IN  IF reg_out_of_bounds(B, regs)
      THEN Outcome(regs, mem, Raise("IndexError", "READ_MEM: register B", 0))
      ELSE IF reg_out_of_bounds(C, regs)
      THEN Outcome(regs, mem, Raise("IndexError", "READ_MEM: register C", 0))
      ELSE LET addr == Add(regs[B], NatToBits(D))
           IN  IF addr_out_of_bounds(addr, mem_len(mem))
               THEN Outcome(regs, mem, addr_error(addr, "READ_MEM"))
               ELSE Outcome([regs EXCEPT ![C] = cell(mem, BitsToNat(addr))], mem,
                            NoErr)

\* Mutant: the store goes to the cell after the one addressed.
exec_WRITE_MEM_next_cell(cmd_int, regs, mem) ==
  LET B == field(cmd_int, 5, 7)
      C == field(cmd_int, 12, 14)
  IN  IF reg_out_of_bounds(B, regs)
      THEN Outcome(regs, mem, Raise("IndexError", "WRITE_MEM: register B", 0))
      ELSE LET addr == NatToBits(C + 1)
           IN  IF addr_out_of_bounds(addr, mem_len(mem))
               THEN Outcome(regs, mem, addr_error(addr, "WRITE_MEM"))
               ELSE Outcome(regs, store(mem, BitsToNat(addr), regs[B]),
                            NoErr)

\* Mutant: the register is moved to the cell, and cleared.
exec_WRITE_MEM_move(cmd_int, regs, mem) ==
  LET B == field(cmd_int, 5, 7)
      C == field(cmd_int, 12, 14)
  IN  IF reg_out_of_bounds(B, regs)
      THEN Outcome(regs, mem, Raise("IndexError", "WRITE_MEM: register B", 0))
      ELSE LET addr == NatToBits(C)
           IN  IF addr_out_of_bounds(addr, mem_len(mem))
               THEN Outcome(regs, mem, addr_error(addr, "WRITE_MEM"))
               ELSE Outcome([regs EXCEPT ![B] = <<>>],
                            store(mem, BitsToNat(addr), regs[B]), NoErr)

exec_WRITE_MEM(cmd_int, regs, mem) ==
  LET B == field(cmd_int, 5, 7)
      C == field(cmd_int, 12, 14)
  IN  IF reg_out_of_bounds(B, regs)
      THEN Outcome(regs, mem, Raise("IndexError", "WRITE_MEM: register B", 0))
      ELSE LET addr == NatToBits(C)
           IN  IF addr_out_of_bounds(addr, mem_len(mem))
               THEN Outcome(regs, mem, addr_error(addr, "WRITE_MEM"))
               ELSE Outcome(regs, store(mem, BitsToNat(addr), regs[B]),
                            NoErr)

\* float(v) raises OverflowError: abs(v) rounds to 2^1024 or more, that is
\* abs(v) >= 2^1024 - 2^970.
FloatOverflows(v) ==
  Len(v) > 1024 \/ (Len(v) = 1024 /\ \A i \in 971..1024 : v[i] # 0)

\* The exception int(pow(op1, op2)) raises, or "none".  With op2 < 0 the
\* power is float(op1) ** float(op2): both conversions come first, then
\* 0.0 is refused.
pow_raises(op1, op2) ==
  IF ~IsNeg(op2) THEN "none"
  ELSE IF FloatOverflows(op1) \/ FloatOverflows(op2) THEN "OverflowError"
  ELSE IF op1 = <<>> THEN "ZeroDivisionError"
  ELSE "none"

\* int(pow(op1, op2)) where it raises nothing.  With op2 >= 0 the exact
\* integer power.  With op2 < 0 the float power cut to an int: 1 for base
\* 1, 1 or -1 for base -1 (-1 when float(op2) is odd, which takes
\* abs(op2) < 2^53), 0 for every other base.
pow(op1, op2) ==
  IF IsNeg(op2)
  THEN (IF Abs(op1) # <<1>> THEN <<>>
        ELSE IF IsNeg(op1) /\ op2[1] # 0 /\ Len(op2) <= 53 THEN <<-1>>
        ELSE <<1>>)
  ELSE IF op2 = <<>> THEN <<1>>
  ELSE IF op1 = <<>> THEN <<>>
  ELSE IF Abs(op1) = <<1>>
  THEN (IF IsNeg(op1) /\ op2[1] = 1 THEN <<-1>> ELSE <<1>>)
  ELSE LET p == PowNat(Abs(op1), BitsToNat(op2))
       IN  IF IsNeg(op1) /\ op2[1] = 1 THEN Negate(p) ELSE p

\* The part of the POW branch before the power is taken: the three
\* register checks, then operand 1, then operand 2.
pow_operands(cmd_int, regs, mem) ==
  LET B == field(cmd_int, 5, 7)
      C == field(cmd_int, 12, 7)
      D == field(cmd_int, 19, 6)
      E == field(cmd_int, 25, 7)
      none == [err |-> NoErr, op1 |-> <<>>, op2 |-> <<>>]
  IN  IF reg_out_of_bounds(B, regs)
      THEN [none EXCEPT !.err = Raise("IndexError", "POW: register B", 0)]
      ELSE IF reg_out_of_bounds(C, regs)
      THEN [none EXCEPT !.err = Raise("IndexError", "POW: register C", 0)]
      ELSE IF reg_out_of_bounds(E, regs)
      THEN [none EXCEPT !.err = Raise("IndexError", "POW: register E", 0)]
      ELSE LET addr1 == Add(regs[E], NatToBits(D))
           IN  IF addr_out_of_bounds(addr1, mem_len(mem))
               THEN [none EXCEPT !.err = addr_error(addr1, "POW operand1")]
               ELSE LET addr2 == regs[B]
                    IN  IF addr_out_of_bounds(addr2, mem_len(mem))
                        THEN [none EXCEPT
                                !.err = addr_error(addr2, "POW operand2")]
                        ELSE [err |-> NoErr,
                              op1 |-> cell(mem, BitsToNat(addr1)),
                              op2 |-> cell(mem, BitsToNat(addr2))]

\* Mutant: the destination register is cleared before the operands are
\* read.
exec_POW_clear_first(cmd_int, regs, mem) ==
  LET C     == field(cmd_int, 12, 7)
      o     == pow_operands(cmd_int, regs, mem)
      regs0 == [regs EXCEPT ![C] = <<>>]
      o0    == pow_operands(cmd_int, regs0, mem)
  IN  IF o.err # NoErr THEN Outcome(regs, mem, o.err)
      ELSE IF o0.err # NoErr THEN Outcome(regs0, mem, o0.err)
      ELSE Outcome([regs EXCEPT ![C] = pow(o0.op1, o0.op2)], mem, NoErr)

\* Mutant: op1 * op2 instead of op1 ** op2.
exec_POW_times(cmd_int, regs, mem) ==
  LET C == field(cmd_int, 12, 7)
      o == pow_operands(cmd_int, regs, mem)
  IN  IF o.err # NoErr THEN Outcome(regs, mem, o.err)
      ELSE Outcome([regs EXCEPT ![C] = Mul(o.op1, o.op2)], mem, NoErr)

\* Mutant: the power is cut to a 32-bit word.
exec_POW_wrap32(cmd_int, regs, mem) ==
  LET C == field(cmd_int, 12, 7)
      o == pow_operands(cmd_int, regs, mem)
  IN  IF o.err # NoErr THEN Outcome(regs, mem, o.err)
      ELSE Outcome([regs EXCEPT ![C] = BitAnd(pow(o.op1, o.op2),
                                              mask(WordBits))],
                   mem, NoErr)

exec_POW(cmd_int, regs, mem) ==
  LET C == field(cmd_int, 12, 7)
      o == pow_operands(cmd_int, regs, mem)
  IN  IF o.err # NoErr THEN Outcome(regs, mem, o.err)
      ELSE IF pow_raises(o.op1, o.op2) # "none"
      THEN Outcome(regs, mem, Raise(pow_raises(o.op1, o.op2), "pow", 0))
      ELSE Outcome([regs EXCEPT ![C] = pow(o.op1, o.op2)], mem, NoErr)

\* Mutant: a word with an unknown opcode is skipped.
decode_and_execute_one_skip(cmd_int, regs, mem) ==
  LET A == field(cmd_int, 0, 5)
  IN  IF A = OP_LOAD_CONST THEN exec_LOAD_CONST(cmd_int, regs, mem)
      ELSE IF A = OP_READ_MEM THEN exec_READ_MEM(cmd_int, regs, mem)
      ELSE IF A = OP_WRITE_MEM THEN exec_WRITE_MEM(cmd_int, regs, mem)
      ELSE IF A = OP_POW THEN exec_POW(cmd_int, regs, mem)
      ELSE Outcome(regs, mem, NoErr)

decode_and_execute_one(cmd_int, regs, mem) ==
  LET A == field(cmd_int, 0, 5)
  IN  IF A = OP_LOAD_CONST THEN exec_LOAD_CONST(cmd_int, regs, mem)
      ELSE IF A = OP_READ_MEM THEN exec_READ_MEM(cmd_int, regs, mem)
      ELSE IF A = OP_WRITE_MEM THEN exec_WRITE_MEM(cmd_int, regs, mem)
      ELSE IF A = OP_POW THEN exec_POW(cmd_int, regs, mem)
      ELSE Outcome(regs, mem, Raise("ValueError", "Unknown opcode", 0))

\* Mutant: the loop also runs with pc equal to program_len.
loop_cond_inclusive(pc_, program_len_) == pc_ <= program_len_

\* while state["pc"] < state["program_len"]
loop_cond(pc_, program_len_) == pc_ < program_len_

\* Mutant: pc advances by two.
next_pc_skip(pc_) == pc_ + 2

\* Mutant: pc does not advance.
next_pc_stuck(pc_) == pc_

\* state["pc"] += 1
next_pc(pc_) == pc_ + 1

\* The address a WRITE_MEM word stores to.
write_target(cmd_int) == field(cmd_int, 12, 14)

\* ------------------------------------------------------------------------
\* Inputs of the runs
\* ------------------------------------------------------------------------

\* str(n) of an integer: the token a row holds for it.
RECURSIVE NatStr(_)
NatStr(n) ==
  IF n < 10 THEN <<DigitChars[n + 1]>>
  ELSE NatStr(n \div 10) \o <<DigitChars[(n % 10) + 1]>>

Str(n) == IF n < 0 THEN <<"-">> \o NatStr(0 - n) ELSE NatStr(n)

\* The row MNEMONIC,arg1,arg2,... as to_ir receives it.
Row(mnemonic, args) == <<mnemonic>> \o [i \in 1..Len(args) |-> Str(args[i])]

\* Defaults of run_binary_bytes.
DEFAULT_MEM_SIZE == 65536

DEFAULT_REGS == 32

\* The load/store example.
ProgramA ==
  << Row(LOAD_CONST, <<0, 123>>),
     Row(WRITE_MEM, <<0, 100>>),
     Row(LOAD_CONST, <<2, 100>>),
     Row(READ_MEM, <<2, 1, 0>>) >>

\* The power example.
ProgramB ==
  << Row(LOAD_CONST, <<0, 2>>),
     Row(WRITE_MEM, <<0, 600>>),
     Row(LOAD_CONST, <<0, 3>>),
     Row(WRITE_MEM, <<0, 700>>),
     Row(LOAD_CONST, <<10, 600>>),
     Row(LOAD_CONST, <<11, 700>>),
     Row(POW, <<11, 12, 0, 10>>),
     Row(WRITE_MEM, <<12, 800>>) >>

\* The one-row programs of the encoding tests.
ProgramV1 == << Row(LOAD_CONST, <<0, 123>>) >>

ProgramV2 == << Row(WRITE_MEM, <<0, 100>>) >>

ProgramV3 == << Row(READ_MEM, <<2, 1, 0>>) >>

\* A program that stores the word 13 (LOAD_CONST,0,0) over its first row,
\* already fetched, and over its last row, not fetched yet.
ProgramSelfModify ==
  << Row(LOAD_CONST, <<0, 13>>),
     Row(WRITE_MEM, <<0, 0>>),
     Row(WRITE_MEM, <<0, 3>>),
     Row(LOAD_CONST, <<1, 2>>) >>

\* Programs run with the default sizes.
\* The power example with the result written to the register that holds
\* the addresses of both operands (B = C = E = 10): 2 ** 3 with the base
\* at mem[601] and the exponent at mem[600].  The base is also stored
\* over the second row, already fetched.
ProgramPowAlias ==
  << Row(LOAD_CONST, <<0, 0>>),
     Row(LOAD_CONST, <<0, 2>>),
     Row(WRITE_MEM, <<0, 601>>),
     Row(WRITE_MEM, <<0, 1>>),
     Row(LOAD_CONST, <<0, 3>>),
     Row(WRITE_MEM, <<0, 600>>),
     Row(LOAD_CONST, <<10, 600>>),
     Row(POW, <<10, 10, 1, 10>>) >>

\* A power that does not fit in 32 bits, then stored: 3 ** 21 with the base
\* at mem[600] and the exponent at mem[601], the result written to
\* mem[700].
ProgramBigPow ==
  << Row(LOAD_CONST, <<0, 3>>),
     Row(WRITE_MEM, <<0, 600>>),
     Row(LOAD_CONST, <<0, 21>>),
     Row(WRITE_MEM, <<0, 601>>),
     Row(LOAD_CONST, <<10, 600>>),
     Row(LOAD_CONST, <<11, 601>>),
     Row(POW, <<11, 12, 0, 10>>),
     Row(WRITE_MEM, <<12, 700>>) >>

\* An operand of MaxStrDigits digits after its sign, which int() converts,
\* in a row of its own; the program ends there.
ProgramLongOperand ==
  << <<LOAD_CONST, <<"1">>,
       <<"+">> \o [i \in 1..(MaxStrDigits - 1) |-> "0"] \o <<"7">>>> >>

\* The same operand with one digit more, which int() refuses, after a row
\* it accepts and before a row with an unknown mnemonic.
ProgramOverlongOperand ==
  << Row(LOAD_CONST, <<0, 1>>),
     <<WRITE_MEM, <<"+">> \o [i \in 1..MaxStrDigits |-> "0"] \o <<"1">>,
       <<"1">>>>,
     <<<<"N","O","P">>>> >>

\* A register that comes to hold 2 ** 32768, a number of 9865 decimal
\* digits, is used as an address: 2 ** 15 is computed and stored as the
\* exponent, 2 ** (2 ** 15) is computed, and READ_MEM takes it as its base
\* address.  The last row names register 100.
ProgramHugeAddress ==
  << Row(LOAD_CONST, <<0, 2>>),
     Row(WRITE_MEM, <<0, 1000>>),
     Row(LOAD_CONST, <<0, 15>>),
     Row(WRITE_MEM, <<0, 1001>>),
     Row(LOAD_CONST, <<1, 1001>>),
     Row(LOAD_CONST, <<3, 1000>>),
     Row(POW, <<1, 2, 0, 3>>),
     Row(WRITE_MEM, <<2, 1001>>),
     Row(POW, <<1, 2, 0, 3>>),
     Row(READ_MEM, <<2, 4, 0>>),
     Row(LOAD_CONST, <<100, 0>>) >>

\* One valid row, then a row naming a register the default DEFAULT_REGS
\* registers do not have: as each register operand of READ_MEM, WRITE_MEM
\* and POW.
RegisterOutOfRangePrograms ==
  { << Row(LOAD_CONST, <<0, 1>>), row >> :
      row \in { Row(READ_MEM, <<DEFAULT_REGS, 1, 0>>),
                Row(READ_MEM, <<1, DEFAULT_REGS + 8, 0>>),
                Row(WRITE_MEM, <<DEFAULT_REGS, 5>>),
                Row(POW, <<DEFAULT_REGS, 1, 0, 2>>),
                Row(POW, <<1, DEFAULT_REGS + 1, 0, 2>>),
                Row(POW, <<1, 2, 0, 127>>) } }

FixedPrograms ==
  {ProgramA, ProgramB, ProgramV1, ProgramV2, ProgramV3, ProgramSelfModify,
   ProgramPowAlias, ProgramBigPow, ProgramLongOperand, ProgramOverlongOperand,
   ProgramHugeAddress}
    \cup RegisterOutOfRangePrograms

\* Rows of the drawn programs.  With SmallRegs registers and SmallMem or
\* TinyMem cells they cover: in-range operands, a store into the program's
\* own words, a register index and an address beyond the sizes, operands
\* wider than their field, a negative operand, a power whose base is a cell
\* past the program, a lower-case mnemonic, a mnemonic written with the
\* long s (U+017F, which upper-cases to S) and an argument written with a
\* form feed and the digit U+0665, and rows the translator refuses.
RowPool ==
  { Row(LOAD_CONST, <<0, 13>>),
    Row(LOAD_CONST, <<1, 2>>),
    Row(WRITE_MEM, <<0, 2>>),
    Row(WRITE_MEM, <<1, 1>>),
    Row(READ_MEM, <<1, 1, 1>>),
    Row(POW, <<1, 2, SmallMem - 1, 2>>),
    Row(LOAD_CONST, <<SmallRegs, 1>>),
    << <<"l","o","a","d","_","c","o","n","U+017F","t">>,
       <<"1","2","8">>, <<"\f","U+0665">> >>,
    Row(WRITE_MEM, <<0, SmallMem + 5>>),
    Row(WRITE_MEM, <<1, 16384>>),
    Row(<<"r","e","a","d","_","m","e","m">>, <<-127, 0, 64>>),
    Row(LOAD_CONST, <<0>>),
    <<LOAD_CONST, <<"x">>, <<"1">>>>,
    <<<<"N","O","P">>>> }

\* All sequences over S of length 0..n.
RECURSIVE SeqsUpTo(_, _)
SeqsUpTo(S, n) ==
  IF n = 0 THEN {<<>>}
  ELSE LET shorter == SeqsUpTo(S, n - 1)
       IN  shorter \cup {Append(q, x) : q \in shorter, x \in S}

TextPrograms == SeqsUpTo(RowPool, MaxRows)

\* Words of the raw byte streams, as their 4 bytes: the zero word, opcode
\* 31, a LOAD_CONST with bit 31 set, a WRITE_MEM with bits 26-31 set, POW
\* words with D = 3, E = 2 and with E = 64 (bit 31), a READ_MEM of
\* register 0.
RawWordPool ==
  { <<0, 0, 0, 0>>,
    <<31, 0, 0, 0>>,
    <<13, 16, 0, 128>>,
    <<15, 16, 0, 252>>,
    <<54, 32, 24, 4>>,
    <<22, 0, 0, 128>>,
    <<26, 16, 0, 0>> }

RECURSIVE Flatten(_)
Flatten(chunks) ==
  IF chunks = <<>> THEN <<>> ELSE Head(chunks) \o Flatten(Tail(chunks))

\* Raw byte streams: whole words, and the same with 1 to 3 bytes more.
RawStreams ==
  LET whole == {Flatten(q) : q \in SeqsUpTo(RawWordPool, MaxRawWords)}
  IN  whole \cup {b \o SubSeq(<<13, 0, 0>>, 1, k) : b \in whole, k \in 1..3}

\* Rows as csv.reader yields them: an empty line, a line of blanks,
\* comment lines (one indented, one with a comma), a line whose first field
\* is empty, and instruction lines with and without blanks around their
\* fields, one of them with an unknown mnemonic.
CsvRowPool ==
  { <<>>,
    << <<" ", " ">> >>,
    << <<"#", " ", "c">> >>,
    << <<" ", "#", "c">>, <<" ", "1">> >>,
    << <<>>, <<"5">> >>,
    << <<" ">> \o <<"l","o","a","d","_","c","o","n","s","t">> \o <<" ">>,
       <<"\f", "0">>, <<"1", "3", " ">> >>,
    Row(WRITE_MEM, <<0, 2>>),
    Row(LOAD_CONST, <<1, 2>>),
    << <<"\t", "N", "O", "P", " ">> >> }

CsvFiles == SeqsUpTo(CsvRowPool, MaxRows)

\* The sizes of the drawn runs.
DrawnSizes == {<<SmallMem, SmallRegs>>, <<TinyMem, SmallRegs>>}

\* ------------------------------------------------------------------------
\* The state machine: one call chain to_ir -> assemble -> run_binary_bytes
\* ------------------------------------------------------------------------

VARIABLES
  csv_file,       \* the CSV file given to parse_csv_program, if any
  rows,           \* the textual program given to to_ir (<<>> for a raw stream)
  ir,             \* the IR list to_ir returned
  code_bytes,     \* the byte stream given to run_binary_bytes
  mem_size,       \* run_binary_bytes' mem_size argument
  regs_count,     \* run_binary_bytes' regs_count argument
  program_words,  \* the words cut from code_bytes
  regs,           \* state["regs"]
  mem,            \* state["mem"]
  pc,             \* state["pc"]
  program_len,    \* state["program_len"]
  phase,          \* where the call chain stands
  err,            \* the exception that ended it, or NoErr
  trace,          \* history: the fetches so far, in order
  stored,         \* history: the addresses WRITE_MEM has stored to so far
  result,         \* what run_binary_bytes handed back to its caller
  codec           \* a direct call of pack_fields / unpack_field (CodecSpec)

vars ==
  <<csv_file, rows, ir, code_bytes, mem_size, regs_count, program_words, regs, mem, pc,
    program_len, phase, err, trace, stored, result, codec>>

args == <<csv_file, rows, mem_size, regs_count, codec>>

machine == <<program_words, regs, mem, pc, program_len, trace, stored>>

\* phase: "idle"     : no call made yet;
\*        "parse"    : parse_csv_program is the next call to make;
\*        "to_ir", "assemble", "load" : the next call to make;
\*        "run"      : inside run_binary_bytes' loop;
\*        "returned" : run_binary_bytes returned its state;
\*        "raised"   : an exception ended the chain (err).
\* Nothing was handed back: the call has not returned, or it raised.
NoResult ==
  [returned |-> FALSE, regs |-> <<>>, mem |-> [size |-> 0, cells |-> <<>>],
   pc |-> 0, program_len |-> 0]

\* Mutant: the function ends without its return statement.
return_state_missing(regs_, mem_, pc_, program_len_) == NoResult

\* return state
return_state(regs_, mem_, pc_, program_len_) ==
  [returned |-> TRUE, regs |-> regs_, mem |-> mem_, pc |-> pc_,
   program_len |-> program_len_]

CodecIdle == [step |-> "idle", fields |-> <<>>, word |-> <<>>, out |-> <<>>]

\* No CSV file is involved in the call.
NoFile == [given |-> FALSE, exists |-> FALSE, rows |-> <<>>]

Init ==
  /\ codec = CodecIdle
  /\ csv_file = NoFile
  /\ rows = <<>>
  /\ mem_size = 0
  /\ regs_count = 0
  /\ code_bytes = <<>>
  /\ phase = "idle"
  /\ ir = <<>>
  /\ program_words = <<>>
  /\ regs = <<>>
  /\ mem = mem_of(0, <<>>)
  /\ pc = 0
  /\ program_len = 0
  /\ err = NoErr
  /\ trace = <<>>
  /\ stored = {}
  /\ result = NoResult

\* The caller has a textual program: one of the examples with the default
\* sizes, or a drawn program with drawn sizes.
CallText ==
  /\ phase = "idle"
  /\ \E p \in FixedPrograms \cup TextPrograms :
       /\ rows' = p
       /\ \E sz \in (IF p \in FixedPrograms
                     THEN {<<DEFAULT_MEM_SIZE, DEFAULT_REGS>>}
                     ELSE DrawnSizes) :
            mem_size' = sz[1] /\ regs_count' = sz[2]
  /\ phase' = "to_ir"
  /\ UNCHANGED <<csv_file, ir, code_bytes, machine, err, result, codec>>

\* The caller has a byte stream that no assembler produced.
CallRaw ==
  /\ phase = "idle"
  /\ code_bytes' \in RawStreams
  /\ \E sz \in DrawnSizes : mem_size' = sz[1] /\ regs_count' = sz[2]
  /\ phase' = "load"
  /\ UNCHANGED <<csv_file, rows, ir, machine, err, result, codec>>

\* The caller (the assembler's main) has the path of a CSV file: a missing
\* file, or a file whose lines csv.reader turns into the rows drawn.
CallCsv ==
  /\ phase = "idle"
  /\ \/ csv_file' = [given |-> TRUE, exists |-> FALSE, rows |-> <<>>]
     \/ \E f \in CsvFiles :
          csv_file' = [given |-> TRUE, exists |-> TRUE, rows |-> f]
  /\ mem_size' = SmallMem
  /\ regs_count' = SmallRegs
  /\ phase' = "parse"
  /\ UNCHANGED <<rows, ir, code_bytes, machine, err, result, codec>>

\* rows = parse_csv_program(path)
ParseCsv ==
  /\ phase = "parse"
  /\ IF ~csv_file.exists
     THEN /\ err' = Raise("FileNotFoundError", "parse_csv_program", 0)
          /\ phase' = "raised"
          /\ UNCHANGED rows
     ELSE /\ rows' = parse_csv_program(csv_file.rows)
          /\ phase' = "to_ir"
          /\ UNCHANGED err
  /\ UNCHANGED <<csv_file, mem_size, regs_count, codec, ir, code_bytes,
                 machine, result>>

\* ir = to_ir(rows)
ToIr ==
  /\ phase = "to_ir"
  /\ \E r \in {to_ir(rows)} :
       /\ ir' = r.ir
       /\ err' = r.err
       /\ phase' = IF r.err = NoErr THEN "assemble" ELSE "raised"
  /\ UNCHANGED <<args, result, code_bytes, machine>>

\* binary = assemble(ir)
Assemble ==
  /\ phase = "assemble"
  /\ LET r == assemble(ir)
     IN  /\ code_bytes' = r.bytes
         /\ err' = r.err
         /\ phase' = IF r.err = NoErr THEN "load" ELSE "raised"
  /\ UNCHANGED <<args, result, ir, machine>>

\* Mutant: the size check is made before the alignment check.
Load_size_first ==
  /\ phase = "load"
  /\ LET chunks == (Len(code_bytes) + INSTR_SIZE - 1) \div INSTR_SIZE
     IN  IF chunks > mem_size
         THEN /\ program_words' = <<>>
              /\ regs' = zeros(regs_count)
              /\ pc' = 0
              /\ program_len' = chunks
              /\ mem' = mem_of(mem_size, <<>>)
              /\ err' = Raise("MemoryError", "Program too large", 0)
              /\ phase' = "raised"
         ELSE IF Len(code_bytes) % INSTR_SIZE # 0
         THEN /\ err' = Raise("ValueError", "Binary length", 0)
              /\ phase' = "raised"
              /\ UNCHANGED <<program_words, regs, mem, pc, program_len>>
         ELSE LET words == program_words_of(code_bytes)
              IN  /\ program_words' = words
                  /\ regs' = zeros(regs_count)
                  /\ pc' = 0
                  /\ program_len' = Len(words)
                  /\ mem' = mem_of(mem_size, words)
                  /\ err' = NoErr
                  /\ phase' = "run"
  /\ UNCHANGED <<args, result, ir, code_bytes, trace, stored>>

\* Mutant: a program that fills the memory exactly is refused.
Load_refuse_full ==
  /\ phase = "load"
  /\ IF Len(code_bytes) % INSTR_SIZE # 0
     THEN /\ err' = Raise("ValueError", "Binary length", 0)
          /\ phase' = "raised"
          /\ UNCHANGED <<program_words, regs, mem, pc, program_len>>
     ELSE LET words == program_words_of(code_bytes)
          IN  /\ program_words' = words
              /\ regs' = zeros(regs_count)
              /\ pc' = 0
              /\ program_len' = Len(words)
              /\ IF Len(words) >= mem_size
                 THEN /\ mem' = mem_of(mem_size, <<>>)
                      /\ err' = Raise("MemoryError", "Program too large", 0)
                      /\ phase' = "raised"
                 ELSE /\ mem' = mem_of(mem_size, words)
                      /\ err' = NoErr
                      /\ phase' = "run"
  /\ UNCHANGED <<args, result, ir, code_bytes, trace, stored>>

\* run_binary_bytes up to its loop: the alignment check, the words, the
\* zeroed state, the size check, the copy of the words into memory.
\* Mutant: the program is loaded without the size check.
Load_no_size_check ==
  /\ phase = "load"
  /\ IF Len(code_bytes) % INSTR_SIZE # 0
     THEN /\ err' = Raise("ValueError", "Binary length", 0)
          /\ phase' = "raised"
          /\ UNCHANGED <<program_words, regs, mem, pc, program_len>>
     ELSE LET words == program_words_of(code_bytes)
          IN  /\ program_words' = words
              /\ regs' = zeros(regs_count)
              /\ pc' = 0
              /\ program_len' = Len(words)
              /\ mem' = mem_of(mem_size, words)
              /\ err' = NoErr
              /\ phase' = "run"
  /\ UNCHANGED <<args, result, ir, code_bytes, trace, stored>>

Load ==
  /\ phase = "load"
  /\ IF Len(code_bytes) % INSTR_SIZE # 0
     THEN /\ err' = Raise("ValueError", "Binary length", 0)
          /\ phase' = "raised"
          /\ UNCHANGED <<program_words, regs, mem, pc, program_len>>
     ELSE LET words == program_words_of(code_bytes)
          IN  /\ program_words' = words
              /\ regs' = zeros(regs_count)
              /\ pc' = 0
              /\ program_len' = Len(words)
              /\ IF Len(words) > mem_size
                 THEN /\ mem' = mem_of(mem_size, <<>>)
                      /\ err' = Raise("MemoryError", "Program too large", 0)
                      /\ phase' = "raised"
                 ELSE /\ mem' = mem_of(mem_size, words)
                      /\ err' = NoErr
                      /\ phase' = "run"
  /\ UNCHANGED <<args, result, ir, code_bytes, trace, stored>>

\* Mutant: pc is advanced after the instruction, so not when it fails.
Step_increment_after ==
  /\ phase = "run"
  /\ loop_cond(pc, program_len)
  /\ LET instr == cell(mem, pc)
         r     == decode_and_execute_one(instr, regs, mem)
     IN  /\ pc' = IF r.err = NoErr THEN next_pc(pc) ELSE pc
         /\ regs' = r.regs
         /\ mem' = r.mem
         /\ err' = r.err
         /\ phase' = IF r.err = NoErr THEN "run" ELSE "raised"
         /\ trace' = Append(trace, [addr |-> pc, word |-> instr,
                                    fresh |-> pc \notin stored])
         /\ stored' = IF field(instr, 0, 5) = OP_WRITE_MEM /\ r.err = NoErr
                      THEN stored \cup {write_target(instr)}
                      ELSE stored
  /\ UNCHANGED <<args, result, ir, code_bytes, program_words, program_len>>

\* One iteration of the loop: fetch, advance pc, decode_and_execute_one.
Step ==
  /\ phase = "run"
  /\ loop_cond(pc, program_len)
  /\ \E instr \in {cell(mem, pc)} :
     \E r \in {decode_and_execute_one(instr, regs, mem)} :
       /\ pc' = next_pc(pc)
       /\ regs' = r.regs
       /\ mem' = r.mem
       /\ err' = r.err
       /\ phase' = IF r.err = NoErr THEN "run" ELSE "raised"
       /\ trace' = Append(trace, [addr |-> pc, word |-> instr,
                                  fresh |-> pc \notin stored])
       /\ stored' = IF field(instr, 0, 5) = OP_WRITE_MEM /\ r.err = NoErr
                    THEN stored \cup {write_target(instr)}
                    ELSE stored
  /\ UNCHANGED <<args, result, ir, code_bytes, program_words, program_len>>

\* The loop ends and run_binary_bytes returns state.
Return ==
  /\ phase = "run"
  /\ ~loop_cond(pc, program_len)
  /\ phase' = "returned"
  /\ result' = return_state(regs, mem, pc, program_len)
  /\ UNCHANGED <<args, ir, code_bytes, machine, err>>

Next ==
  \/ CallText \/ CallRaw \/ CallCsv \/ ParseCsv
  \/ ToIr \/ Assemble \/ Load \/ Step \/ Return

Spec == Init /\ [][Next]_vars

\* The interpreter is one sequential loop: an iteration that can be taken
\* is taken, and a loop that can end ends.  An iteration (Step) can be
\* taken exactly when IterationEnabled holds, so the second conjunct is
\* WF_vars(Step) with ENABLED written out.
IterationEnabled == phase = "run" /\ loop_cond(pc, program_len)

FairSpec ==
  /\ Spec
  /\ WF_vars(Return)
  /\ ([]<>(~IterationEnabled) \/ []<><<Step>>_vars)

\* ------------------------------------------------------------------------
\* Direct calls of the codec
\* ------------------------------------------------------------------------

\* Values packed: small, as wide as a field, wider than any field, and
\* negative.
CodecValues ==
  {0, 1, 5, 123, 2047, 65535, 2147483647, -1, -2, -127, -2147483647}

\* word = pack_fields([(value, offset, width)])
PackOne ==
  /\ codec.step = "idle"
  /\ \E v \in CodecValues, offset \in 0..(WordBits - 1) :
       \E width \in 1..(WordBits - offset) :
         codec' = [step   |-> "packed",
                   fields |-> << <<v, offset, width>> >>,
                   word   |-> pack_fields(<< <<v, offset, width>> >>),
                   out    |-> <<>>]
  /\ UNCHANGED <<csv_file, rows, mem_size, regs_count, ir, code_bytes,
                 machine, phase, err, result>>

\* out = unpack_field(word, offset, width) of the first field packed
UnpackFirst ==
  /\ codec.step = "packed"
  /\ codec' = [codec EXCEPT
                 !.step = "unpacked",
                 !.out = unpack_field(codec.word, codec.fields[1][2],
                                      codec.fields[1][3])]
  /\ UNCHANGED <<csv_file, rows, mem_size, regs_count, ir, code_bytes,
                 machine, phase, err, result>>

\* Operands of the records encoded directly: small, the largest of a field,
\* one more than the largest of a field, and negative.
OperandValues ==
  {0, 1, 63, 64, 127, 128, 2047, 2048, 16383, 16384, -1, -128, 2147483647}

\* The IR records encode_instr is called with.
EncodedRecords ==
  {[cmd |-> "LOAD_CONST", B |-> b, C |-> c] :
     b \in OperandValues, c \in OperandValues}
  \cup {[cmd |-> "WRITE_MEM", B |-> b, C |-> c] :
     b \in OperandValues, c \in OperandValues}
  \cup {[cmd |-> "READ_MEM", B |-> b, C |-> c, D |-> d] :
     b \in OperandValues, c \in OperandValues, d \in OperandValues}
  \cup {[cmd |-> "POW", B |-> b, C |-> c, D |-> d, E |-> e] :
     b \in {0, 127, 128, -1}, c \in {1, 128, -128},
     d \in OperandValues, e \in OperandValues}

\* The fields decode_and_execute_one reads off a word: the opcode, then the
\* operands of that opcode.
decode_fields(cmd_int) ==
  LET A == field(cmd_int, 0, 5)
  IN  IF A = OP_LOAD_CONST
      THEN [A |-> A, B |-> field(cmd_int, 5, 7), C |-> field(cmd_int, 12, 11)]
      ELSE IF A = OP_READ_MEM
      THEN [A |-> A, B |-> field(cmd_int, 5, 7), C |-> field(cmd_int, 12, 7),
            D |-> field(cmd_int, 19, 6)]
      ELSE IF A = OP_WRITE_MEM
      THEN [A |-> A, B |-> field(cmd_int, 5, 7), C |-> field(cmd_int, 12, 14)]
      ELSE IF A = OP_POW
      THEN [A |-> A, B |-> field(cmd_int, 5, 7), C |-> field(cmd_int, 12, 7),
            D |-> field(cmd_int, 19, 6), E |-> field(cmd_int, 25, 7)]
      ELSE [A |-> A]

\* word = encode_instr(record), the four bytes of the instruction
EncodeRecord ==
  /\ codec.step = "idle"
  /\ \E rec \in EncodedRecords :
       codec' = [step   |-> "encoded",
                 fields |-> rec,
                 word   |-> encode_instr(rec).bytes,
                 out    |-> <<>>]
  /\ UNCHANGED <<csv_file, rows, mem_size, regs_count, ir, code_bytes,
                 machine, phase, err, result>>

\* out = the fields the interpreter reads off the word of these bytes
DecodeWord ==
  /\ codec.step = "encoded"
  /\ codec' = [codec EXCEPT
                 !.step = "decoded",
                 !.out = decode_fields(from_bytes(codec.word))]
  /\ UNCHANGED <<csv_file, rows, mem_size, regs_count, ir, code_bytes,
                 machine, phase, err, result>>

\* Longest field list packed at once.
MaxFields == 3

\* Fields packed together: the fields of an instruction, a field that
\* overlaps another, and fields that reach beyond bit 31.
FieldPool ==
  { <<13, 0, 5>>, <<-1, 5, 7>>, <<2047, 12, 11>>, <<5, 3, 4>>,
    <<-2, 28, 8>>, <<65535, 20, 16>> }

\* The orders a list can be given in.
Orders(s) ==
  { [i \in 1..Len(s) |-> s[p[i]]] :
      p \in { q \in [1..Len(s) -> 1..Len(s)] :
                \A i, j \in 1..Len(s) : q[i] = q[j] => i = j } }

\* word = pack_fields(fields) for a list of several fields
PackMany ==
  /\ codec.step = "idle"
  /\ \E n \in 2..MaxFields :
       \E fields \in [1..n -> FieldPool] :
         codec' = [step   |-> "packed_many",
                   fields |-> fields,
                   word   |-> pack_fields(fields),
                   out    |-> <<>>]
  /\ UNCHANGED <<csv_file, rows, mem_size, regs_count, ir, code_bytes,
                 machine, phase, err, result>>

\* The same fields packed again in another order; out keeps the first word.
PackPermuted ==
  /\ codec.step = "packed_many"
  /\ \E fields \in Orders(codec.fields) :
       codec' = [step   |-> "repacked",
                 fields |-> fields,
                 word   |-> pack_fields(fields),
                 out    |-> codec.word]
  /\ UNCHANGED <<csv_file, rows, mem_size, regs_count, ir, code_bytes,
                 machine, phase, err, result>>

CodecNext ==
  \/ PackOne
  \/ UnpackFirst
  \/ EncodeRecord
  \/ DecodeWord
  \/ PackMany
  \/ PackPermuted

CodecSpec == Init /\ [][CodecNext]_vars

\* ------------------------------------------------------------------------
\* Properties
\* ------------------------------------------------------------------------

\* The call chain has ended with a result or an exception.
Finished == phase \in {"returned", "raised"}

\* The value n as a machine value.
Val(n) == NatToBits(n)

\* C1 as stated: assembling the single row READ_MEM,2,1,0 yields exactly
\* the bytes 1A 10 00 00, the little-endian word 0x0000101A (4122).
C1_Original ==
  (rows = ProgramV3 /\ phase \notin {"to_ir", "assemble"}) =>
    /\ code_bytes = <<26, 16, 0, 0>>
    /\ from_bytes(code_bytes) = Val(4122)

\* C1 amended: assembling the single row READ_MEM,2,1,0 yields exactly the
\* bytes 5A 10 00 00, the little-endian word 0x0000105A (4186): A = 26 in
\* bits 0-4, B = 2 in bits 5-11, C = 1 in bits 12-18, D = 0 in bits 19-24.
C1_Amended ==
  (rows = ProgramV3 /\ phase \notin {"to_ir", "assemble"}) =>
    /\ code_bytes = <<90, 16, 0, 0>>
    /\ from_bytes(code_bytes) = Val(4186)
    /\ field(from_bytes(code_bytes), 0, 5) = 26
    /\ field(from_bytes(code_bytes), 5, 7) = 2
    /\ field(from_bytes(code_bytes), 12, 7) = 1
    /\ field(from_bytes(code_bytes), 19, 6) = 0

C1_Witness ==
  rows = ProgramV3 /\ phase = "load" /\ Len(code_bytes) = INSTR_SIZE

\* C9: assembling the single row LOAD_CONST,0,123 yields the bytes
\* 0D B0 07 00 (word 0x0007B00D = 503821), and the single row
\* WRITE_MEM,0,100 yields 0F 40 06 00 (word 0x0006400F = 409615).
C9_LoadConstWriteMemVectors ==
  /\ (rows = ProgramV1 /\ phase \notin {"to_ir", "assemble"}) =>
       /\ code_bytes = <<13, 176, 7, 0>>
       /\ from_bytes(code_bytes) = Val(503821)
  /\ (rows = ProgramV2 /\ phase \notin {"to_ir", "assemble"}) =>
       /\ code_bytes = <<15, 64, 6, 0>>
       /\ from_bytes(code_bytes) = Val(409615)

C9_Witness ==
  rows = ProgramV2 /\ phase = "load" /\ Len(code_bytes) = INSTR_SIZE

\* C7: the load/store program with 65536 cells and 32 registers raises
\* nothing and returns a state with memory[100] = 123 and register[1] = 123.
C7_ScenarioA ==
  (rows = ProgramA /\ mem_size = DEFAULT_MEM_SIZE /\ regs_count = DEFAULT_REGS)
    => /\ phase # "raised"
       /\ phase = "returned" => (cell(mem, 100) = Val(123) /\ regs[1] = Val(123))

C7_Witness ==
  rows = ProgramA /\ phase = "returned" /\ Len(trace) = 4

\* C8: the power program with the default sizes raises nothing and returns
\* a state with memory[800] = 8, the base 2 read from mem[reg[10] + 0] and
\* the exponent 3 from mem[reg[11]].
C8_ScenarioB ==
  (rows = ProgramB /\ mem_size = DEFAULT_MEM_SIZE /\ regs_count = DEFAULT_REGS)
    => /\ phase # "raised"
       /\ phase = "returned" =>
            /\ cell(mem, 800) = Val(8)
            /\ cell(mem, BitsToNat(regs[10])) = Val(2)
            /\ cell(mem, BitsToNat(regs[11])) = Val(3)

C8_Witness ==
  rows = ProgramB /\ phase = "returned" /\ Len(trace) = 8

\* C3 as stated: the words fetched are, in order, the words loaded.
C3_Original ==
  \A k \in 1..Len(trace) : trace[k].word = program_words[k]

\* C3 amended: the k-th fetch is from address k-1 (no address is fetched
\* twice, so a store to an address already fetched is never observed), and
\* it reads the word loaded there unless an earlier WRITE_MEM of the run
\* stored to that address, in which case it reads what memory holds then.
C3_Amended ==
  \A k \in 1..Len(trace) :
    /\ trace[k].addr = k - 1
    /\ trace[k].fresh => trace[k].word = program_words[k]
    /\ (k = Len(trace) /\ phase = "run" /\ pc < program_len /\ pc \notin stored)
         => cell(mem, pc) = program_words[pc + 1]

C3_Witness ==
  /\ rows = ProgramSelfModify
  /\ phase = "returned"
  /\ stored = {0, 3}
  /\ trace[1].word = program_words[1] /\ cell(mem, 0) # program_words[1]
  /\ ~trace[4].fresh /\ trace[4].word # program_words[4]
  /\ regs[1] = Val(0)

\* C4: a run that raises nothing executes exactly program_len instructions,
\* fetched from 0, 1, ..., program_len-1 in this order, and ends with
\* pc = program_len, the number of words of the byte stream, whatever
\* WRITE_MEM stored.
C4_StraightLine ==
  phase = "returned" =>
    /\ Len(trace) = program_len
    /\ \A k \in 1..Len(trace) : trace[k].addr = k - 1
    /\ pc = program_len
    /\ INSTR_SIZE * program_len = Len(code_bytes)

C4_Witness ==
  /\ phase = "returned"
  /\ program_len >= 3
  /\ \E a \in stored : a < program_len
  /\ \E k \in 1..Len(trace) : trace[k].word # program_words[k]

\* C5: every run of the interpreter ends: from the loaded state it reaches
\* the halted state or an exception after at most program_len instruction
\* steps, each of which advances pc by one.
C5_Terminates ==
  /\ [](Len(trace) <= program_len /\ (phase = "run" => pc = Len(trace)))
  /\ (phase = "run") ~> (phase \in {"returned", "raised"})

C5_Witness ==
  /\ phase = "returned"
  /\ code_bytes \in RawStreams
  /\ Len(trace) = program_len
  /\ program_len = MaxRawWords

\* C10: an instruction that fails (register or address out of bounds,
\* unknown opcode) leaves every register and every memory cell as it was
\* when the instruction started: the failing instruction changes nothing
\* and what the earlier instructions changed stays.
C10_NoPartialMutation ==
  [][(phase = "run" /\ phase' = "raised") => (regs' = regs /\ mem' = mem)]_vars

C10_Witness ==
  /\ phase = "raised"
  /\ err.exc \in {"IndexError", "ValueError"}
  /\ Len(trace) >= 3
  /\ regs # zeros(regs_count)
  /\ mem # mem_of(mem_size, program_words)

\* v mod 2^w for an integer v and 1 <= w <= 32, by arithmetic.
ModTwoTo(v, w) ==
  IF w <= 30 THEN Val(v % (2 ^ w))
  ELSE IF v >= 0 THEN Val(v)
  ELSE IF w = 31 THEN Val((v + 2 ^ 30) + 2 ^ 30)
  ELSE [i \in 1..32 |->
          IF i = 32 THEN 1 ELSE BitAt(Val((v + 2 ^ 30) + 2 ^ 30), i)]

\* C6: for every value, offset in 0..31 and width in 1..32-offset,
\* unpack_field(pack_fields([(value, offset, width)]), offset, width) is
\* value & ((1 << width) - 1), that is value mod 2^width.
C6_RoundTrip ==
  (codec.step = "unpacked" /\ Len(codec.fields) = 1) =>
    LET v == codec.fields[1][1]
        w == codec.fields[1][3]
    IN  /\ codec.out = ModTwoTo(v, w)
        /\ codec.out = IntAnd(v, mask(w))

C6_Witness ==
  /\ codec.step = "unpacked"
  /\ codec.fields = << <<-127, 25, 7>> >>
  /\ codec.out = Val(1)
  /\ codec.word = Val(33554432)

\* The machine state as the loop holds it.
MachineState ==
  [returned |-> TRUE, regs |-> regs, mem |-> mem, pc |-> pc,
   program_len |-> program_len]

\* C11 as stated: the caller gets the machine state (registers, memory,
\* program counter) when the run ends normally and when it fails.
C11_Original ==
  (phase = "returned" \/ (phase = "raised" /\ Len(trace) >= 1)) =>
    result = MachineState

\* C11 amended: the caller gets the machine state when the run ends
\* normally; when run_binary_bytes raises (alignment, size, out of bounds,
\* unknown opcode) the exception is all the caller gets and no state is
\* handed back.
C11_Amended ==
  /\ phase = "returned" => result = MachineState
  /\ phase # "returned" => result = NoResult

C11_Witness ==
  /\ phase = "raised"
  /\ err.exc = "IndexError"
  /\ Len(trace) >= 2
  /\ \E i \in DOMAIN regs : regs[i] # <<>>
  /\ result = NoResult

\* Bits 0-4 of a word, read off its binary digits.
OpcodeBits(w) == BitsToNat([i \in 1..5 |-> BitAt(w, i)])

\* C12: a fetched word whose bits 0-4 are none of 13, 26, 15, 22 (the zero
\* word included) makes the run fail with the unknown-opcode error at that
\* instruction: it is the last one fetched.
C12_UnknownOpcode ==
  \A k \in 1..Len(trace) :
    OpcodeBits(trace[k].word) \notin {13, 26, 15, 22} =>
      /\ k = Len(trace)
      /\ phase = "raised"
      /\ err.exc = "ValueError"
      /\ err.where = "Unknown opcode"
      /\ pc = k
      /\ result = NoResult

C12_Witness ==
  /\ phase = "raised"
  /\ err.where = "Unknown opcode"
  /\ Len(trace) = 1
  /\ trace[1].word = <<>>
  /\ program_len = 2
  /\ OpcodeBits(cell(mem, 1)) = 13

\* The address checks of decode_and_execute_one, by the name they give
\* _check_addr.
AddressChecks == {"READ_MEM", "WRITE_MEM", "POW operand1", "POW operand2"}

\* Its register checks.
RegisterChecks ==
  {"LOAD_CONST: register B", "READ_MEM: register B", "READ_MEM: register C",
   "WRITE_MEM: register B", "POW: register B", "POW: register C",
   "POW: register E"}

\* run_binary_bytes was called and has got past its first statement.
CalledRun ==
  \/ phase \in {"run", "returned"}
  \/ /\ phase = "raised"
     /\ \/ err.exc \in {"MemoryError", "IndexError", "OverflowError",
                        "ZeroDivisionError"}
        \/ err.exc = "ValueError"
             /\ err.where \in {"Binary length", "Unknown opcode"}
                                \cup AddressChecks

\* Memory and registers before run_binary_bytes creates its state.
NoMemory == [size |-> 0, cells |-> <<>>]

\* C13: a byte stream whose length is no multiple of 4 fails with the
\* alignment error before anything is fetched and before a register or a
\* memory cell exists, also when the stream is too large for the memory.
C13_AlignmentFirst ==
  (Len(code_bytes) % 4 # 0 /\ phase # "load") =>
    /\ phase = "raised"
    /\ err.exc = "ValueError"
    /\ err.where = "Binary length"
    /\ trace = <<>>
    /\ regs = <<>> /\ mem = NoMemory /\ program_words = <<>>
    /\ stored = {}
    /\ result = NoResult

C13_Witness ==
  /\ phase = "raised"
  /\ err.where = "Binary length"
  /\ Len(code_bytes) = 11
  /\ mem_size = TinyMem
  /\ (Len(code_bytes) + 3) \div 4 > mem_size

\* The i-th 4-byte chunk of the stream (i from 0).
Chunk(i) == SubSeq(code_bytes, 4 * i + 1, 4 * i + 4)

\* C14: an aligned stream of n words fails with the size error exactly
\* when n > memory_size, before anything is fetched; otherwise (n =
\* memory_size included) before the first step mem[i] is the i-th
\* little-endian word for i < n, every other cell is 0 and every register
\* is 0.
C14_SizeCheck ==
  (Len(code_bytes) % 4 = 0 /\ CalledRun) =>
    LET n == Len(code_bytes) \div 4
    IN  /\ (err.exc = "MemoryError") <=> (n > mem_size)
        /\ err.exc = "MemoryError" =>
             (phase = "raised" /\ trace = <<>> /\ result = NoResult)
        /\ n <= mem_size =>
             /\ program_len = n
             /\ mem_len(mem) = mem_size
             /\ DOMAIN regs = 0..(regs_count - 1)
             /\ trace = <<>> =>
                  /\ \A i \in 0..(n - 1) : to_bytes(cell(mem, i)) = Chunk(i)
                  /\ \A i \in n..(mem_size - 1) : cell(mem, i) = <<>>
                  /\ \A r \in DOMAIN regs : regs[r] = <<>>
                  /\ pc = 0

C14_Witness ==
  /\ phase = "run"
  /\ trace = <<>>
  /\ mem_size = TinyMem
  /\ Len(code_bytes) = 4 * TinyMem
  /\ cell(mem, 0) # <<>> /\ cell(mem, 1) # <<>> /\ cell(mem, 0) # cell(mem, 1)

\* What the empty byte stream leaves behind when it halts without error.
EmptyProgramHalted ==
  /\ phase \in {"run", "returned"}
  /\ err = NoErr
  /\ trace = <<>>
  /\ pc = 0 /\ program_len = 0
  /\ phase = "run" => ~(pc < program_len)
  /\ DOMAIN regs = 0..(regs_count - 1)
  /\ \A r \in DOMAIN regs : regs[r] = <<>>
  /\ mem_len(mem) = mem_size
  /\ \A a \in 0..(mem_size - 1) : cell(mem, a) = <<>>
  /\ phase = "returned" =>
       (result.returned /\ result.pc = 0 /\ result.regs = regs
          /\ result.mem = mem)

\* C15: the empty byte stream halts at once without error: nothing is
\* fetched, pc is 0, every register and every memory cell is 0.
C15_EmptyProgram == (code_bytes = <<>> /\ CalledRun) => EmptyProgramHalted

C15_Witness ==
  /\ phase = "returned"
  /\ code_bytes = <<>> /\ rows = <<>>
  /\ mem_size = SmallMem
  /\ result.returned /\ result.pc = 0
  /\ trace = <<>>

\* A field of a word, read off its binary digits.
Bits(w, start, width) == BitsToNat([i \in 1..width |-> BitAt(w, start + i)])

\* a ** n from a ** 0 = 1, a ** (2m) = (a ** m) ** 2 and
\* a ** (m + 1) = a * a ** m.
RECURSIVE RaisedTo(_, _)
RaisedTo(a, n) ==
  IF n = 0 THEN <<1>>
  ELSE IF n % 2 = 0 THEN LET r == RaisedTo(a, n \div 2) IN Mul(r, r)
  ELSE Mul(a, RaisedTo(a, n - 1))

Power(op1, op2) ==
  IF op2 = <<>> THEN <<1>>
  ELSE IF op1 = <<>> THEN <<>>
  ELSE IF op1 = <<1>> THEN <<1>>
  ELSE RaisedTo(op1, BitsToNat(op2))

\* mem2 is mem1 with cell a set to v, all other cells as they were.
SameBut(mem1, mem2, a, v) ==
  /\ mem2.size = mem1.size
  /\ cell(mem2, a) = v
  /\ \A x \in (DOMAIN mem1.cells \cup DOMAIN mem2.cells) \ {a} :
       cell(mem2, x) = cell(mem1, x)

\* The table operation of word w from registers r and memory m to r2, m2.
TableOperation(w, r, m, r2, m2) ==
  LET A == Bits(w, 0, 5)
      B == Bits(w, 5, 7)
  IN  /\ A \in {13, 26, 15, 22}
      /\ A = 13 =>
           /\ r2 = [r EXCEPT ![B] = Val(Bits(w, 12, 11))]
           /\ m2 = m
      /\ A = 26 =>
           LET C == Bits(w, 12, 7)
               D == Bits(w, 19, 6)
           IN  /\ r2 = [r EXCEPT ![C] = cell(m, BitsToNat(Add(r[B], Val(D))))]
               /\ m2 = m
      /\ A = 15 =>
           /\ r2 = r
           /\ SameBut(m, m2, Bits(w, 12, 14), r[B])
      /\ A = 22 =>
           LET C   == Bits(w, 12, 7)
               D   == Bits(w, 19, 6)
               E   == Bits(w, 25, 7)
               op1 == cell(m, BitsToNat(Add(r[E], Val(D))))
               op2 == cell(m, BitsToNat(r[B]))
           IN  /\ r2 = [r EXCEPT ![C] = Power(op1, op2)]
               /\ m2 = m

\* C16: a step on a word with a known opcode and all indexes in bounds
\* does the table operation on the decoded fields, the operands of POW
\* being read before reg[C] is written, and nothing else changes but pc.
C16_TableStep ==
  [][(phase = "run" /\ phase' = "run" /\ Len(trace') = Len(trace) + 1) =>
       /\ TableOperation(cell(mem, pc), regs, mem, regs', mem')
       /\ pc' = pc + 1
       /\ program_len' = program_len]_vars

C16_Witness ==
  /\ rows = ProgramPowAlias
  /\ phase = "returned"
  /\ Bits(trace[8].word, 0, 5) = 22
  /\ Bits(trace[8].word, 12, 7) = Bits(trace[8].word, 25, 7)
  /\ Bits(trace[8].word, 12, 7) = Bits(trace[8].word, 5, 7)
  /\ regs[10] = Val(8)
  /\ cell(mem, 601) = Val(2) /\ cell(mem, 600) = Val(3)

\* The number of arguments of a known mnemonic.
Arity(m) ==
  IF m = LOAD_CONST \/ m = WRITE_MEM THEN 2 ELSE IF m = READ_MEM THEN 3 ELSE 4

\* A row with a mnemonic that is none of the four, or with an argument
\* count other than the mnemonic's arity, or with an argument that is no
\* integer.
Offending(row) ==
  LET m == upper(row[1])
  IN  \/ m \notin {LOAD_CONST, READ_MEM, WRITE_MEM, POW}
      \/ Len(row) - 1 # Arity(m)
      \/ \E k \in 2..Len(row) : ~int(row[k]).ok

\* to_ir has been called, and it raised.
AfterToIr ==
  phase \notin {"idle", "parse", "to_ir"} /\ err.exc # "FileNotFoundError"

ToIrRaised ==
  /\ phase = "raised"
  /\ err.where \in {"Unknown command", "expects args", "int()", "row[0]"}

\* C17: when some row is offending, to_ir fails with the validation error
\* of the first offending row and returns no IR, the records of earlier
\* valid rows included; nothing is assembled or run.
C17_ValidationError ==
  AfterToIr =>
    LET bad == {i \in 1..Len(rows) : Offending(rows[i])}
    IN  bad # {} =>
          /\ ToIrRaised
          /\ err.exc = "ValueError"
          /\ err.line \in bad
          /\ \A j \in bad : err.line <= j
          /\ ir = <<>>
          /\ code_bytes = <<>>
          /\ ~CalledRun

C17_Witness ==
  /\ phase = "raised"
  /\ rows = << Row(LOAD_CONST, <<0, 13>>),
               <<LOAD_CONST, <<"x">>, <<"1">>>>,
               <<<<"N","O","P">>>> >>
  /\ err.exc = "ValueError" /\ err.line = 2 /\ err.where = "int()"
  /\ ir = <<>>

\* The characters of a record's tag.
MnemonicOf(tag) ==
  IF tag = "LOAD_CONST" THEN LOAD_CONST
  ELSE IF tag = "READ_MEM" THEN READ_MEM
  ELSE IF tag = "WRITE_MEM" THEN WRITE_MEM
  ELSE POW

\* rec is the record of row: the upper-cased mnemonic and the integer
\* operands in the row's order.
RecordOf(rec, row) ==
  LET m == upper(row[1])
  IN  /\ MnemonicOf(rec.cmd) = m
      /\ rec.B = int(row[2]).val
      /\ rec.C = int(row[3]).val
      /\ m \in {READ_MEM, POW} => rec.D = int(row[4]).val
      /\ m = POW => rec.E = int(row[5]).val
      /\ DOMAIN rec = {"cmd", "B", "C"}
                        \cup (IF m \in {READ_MEM, POW} THEN {"D"} ELSE {})
                        \cup (IF m = POW THEN {"E"} ELSE {})

\* C19: when to_ir succeeds on n rows it returns n records, the i-th being
\* the record of the i-th row: its mnemonic upper-cased and its integer
\* operands in the same field order.
C19_RowOrder ==
  (AfterToIr /\ ~ToIrRaised) =>
    /\ Len(ir) = Len(rows)
    /\ \A i \in 1..Len(rows) : RecordOf(ir[i], rows[i])

C19_Witness ==
  /\ phase = "assemble"
  /\ rows = << << <<"l","o","a","d","_","c","o","n","U+017F","t">>,
                  <<"1","2","8">>, <<"\f","U+0665">> >>,
               Row(<<"r","e","a","d","_","m","e","m">>, <<-127, 0, 64>>),
               Row(POW, <<1, 2, SmallMem - 1, 2>>) >>
  /\ ir = << [cmd |-> "LOAD_CONST", B |-> 128, C |-> 5],
             [cmd |-> "READ_MEM", B |-> -127, C |-> 0, D |-> 64],
             [cmd |-> "POW", B |-> 1, C |-> 2, D |-> SmallMem - 1, E |-> 2] >>

\* The rows of a CSV file that are neither empty nor blank in their first
\* field nor comments, every field stripped.
KeepRow(row) ==
  /\ row # <<>>
  /\ strip(row[1]) # <<>>
  /\ strip(row[1])[1] # "#"

Kept(reader) ==
  LET sel == SelectSeq(reader, KeepRow)
  IN  [i \in 1..Len(sel) |-> [k \in 1..Len(sel[i]) |-> strip(sel[i][k])]]

\* C18: blank rows and comment rows of the file give no record and no
\* error and leave the records of the other rows as they are; the fields
\* of the other rows, the mnemonic included, are interpreted stripped.
C18_BlankAndComment ==
  (csv_file.exists /\ phase \notin {"idle", "parse"}) =>
    LET kept == Kept(csv_file.rows)
    IN  /\ rows = kept
        /\ phase # "to_ir" =>
             /\ ToIrRaised <=> (\E i \in 1..Len(kept) : Offending(kept[i]))
             /\ ~ToIrRaised =>
                  /\ Len(ir) = Len(kept)
                  /\ \A i \in 1..Len(kept) : RecordOf(ir[i], kept[i])

C18_Witness ==
  /\ phase = "assemble"
  /\ csv_file.exists
  /\ csv_file.rows =
       << << <<" ", "#", "c">>, <<" ", "1">> >>,
          << <<" ">> \o <<"l","o","a","d","_","c","o","n","s","t">> \o <<" ">>,
             <<"\f", "0">>, <<"1", "3", " ">> >>,
          <<>> >>
  /\ ir = << [cmd |-> "LOAD_CONST", B |-> 0, C |-> 13] >>

\* The binary digits i = 1..w of an integer v, lowest first.
FieldBits(v, w) == [i \in 1..w |-> (v \div (2 ^ (i - 1))) % 2]

\* The 32 binary digits of the word of a record, by the layout of its tag.
WordDigits(rec) ==
  IF rec.cmd = "LOAD_CONST"
  THEN FieldBits(13, 5) \o FieldBits(rec.B, 7) \o FieldBits(rec.C, 11)
         \o FieldBits(0, 9)
  ELSE IF rec.cmd = "READ_MEM"
  THEN FieldBits(26, 5) \o FieldBits(rec.B, 7) \o FieldBits(rec.C, 7)
         \o FieldBits(rec.D, 6) \o FieldBits(0, 7)
  ELSE IF rec.cmd = "WRITE_MEM"
  THEN FieldBits(15, 5) \o FieldBits(rec.B, 7) \o FieldBits(rec.C, 14)
         \o FieldBits(0, 6)
  ELSE FieldBits(22, 5) \o FieldBits(rec.B, 7) \o FieldBits(rec.C, 7)
         \o FieldBits(rec.D, 6) \o FieldBits(rec.E, 7)

\* Its four bytes, lowest first.
WordBytes(rec) ==
  [k \in 1..4 |-> BitsToNat(SubSeq(WordDigits(rec), 8 * k - 7, 8 * k))]

\* C20: assemble of n records returns 4*n bytes, bytes 4i..4i+3 being the
\* little-endian bytes of the word of record i, and the interpreter loads
\* that word at mem[i].
C20_AssembleLayout ==
  ((ir # <<>> \/ csv_file.exists) /\ ~ToIrRaised
     /\ phase \notin {"idle", "parse", "to_ir", "assemble"}) =>
    /\ Len(code_bytes) = 4 * Len(ir)
    /\ \A i \in 0..(Len(ir) - 1) : Chunk(i) = WordBytes(ir[i + 1])
    /\ (phase = "run" /\ trace = <<>>) =>
         \A i \in 0..(Len(ir) - 1) : cell(mem, i) = Norm(WordDigits(ir[i + 1]))

C20_Witness ==
  /\ phase = "run" /\ trace = <<>>
  /\ Len(ir) = 3
  /\ ir[1].cmd = "READ_MEM" /\ ir[1].B = -127
  /\ ir[3].cmd = "POW"
  /\ Len(code_bytes) = 12
  /\ cell(mem, 0) # cell(mem, 1) /\ cell(mem, 1) # cell(mem, 2)

\* ------------------------------------------------------------------------
\* C21, C24: the instruction encoding and pack_fields, called directly
\* ------------------------------------------------------------------------

\* The opcode of a tag, and the number of low bits its layout uses.
DispatchValue(cmd) ==
  CASE cmd = "LOAD_CONST" -> 13
    [] cmd = "READ_MEM"   -> 26
    [] cmd = "WRITE_MEM"  -> 15
    [] cmd = "POW"        -> 22

LayoutBits(cmd) ==
  CASE cmd = "LOAD_CONST" -> 23
    [] cmd = "READ_MEM"   -> 25
    [] cmd = "WRITE_MEM"  -> 26
    [] cmd = "POW"        -> 32

\* The fields the interpreter must read off the word of a record: every
\* operand modulo two to the width of its field.
ExpectedFields(rec) ==
  CASE rec.cmd = "LOAD_CONST" ->
         [A |-> 13, B |-> rec.B % (2 ^ 7), C |-> rec.C % (2 ^ 11)]
    [] rec.cmd = "READ_MEM" ->
         [A |-> 26, B |-> rec.B % (2 ^ 7), C |-> rec.C % (2 ^ 7),
          D |-> rec.D % (2 ^ 6)]
    [] rec.cmd = "WRITE_MEM" ->
         [A |-> 15, B |-> rec.B % (2 ^ 7), C |-> rec.C % (2 ^ 14)]
    [] rec.cmd = "POW" ->
         [A |-> 22, B |-> rec.B % (2 ^ 7), C |-> rec.C % (2 ^ 7),
          D |-> rec.D % (2 ^ 6), E |-> rec.E % (2 ^ 7)]

\* The digit i (from 1) of the little-endian integer of four bytes.
ByteDigit(bytes, i) == (bytes[((i - 1) \div 8) + 1] \div (2 ^ ((i - 1) % 8))) % 2

\* C21: for every IR record, whatever its operands (wider than the field,
\* negative), the encoded word carries the dispatch value of the tag in bits
\* 0-4, the interpreter reads every operand off it modulo two to the width of
\* its field, and every bit outside the fields of that opcode is zero.
C21_EncodeDecode ==
  /\ codec.step \in {"encoded", "decoded"} =>
       /\ Len(codec.word) = 4
       /\ \A k \in 1..4 : codec.word[k] \in 0..255
       /\ BitsToNat([i \in 1..5 |-> ByteDigit(codec.word, i)])
            = DispatchValue(codec.fields.cmd)
       /\ \A i \in (LayoutBits(codec.fields.cmd) + 1)..32 :
            ByteDigit(codec.word, i) = 0
  /\ codec.step = "decoded" => codec.out = ExpectedFields(codec.fields)

\* A POW record whose four operands are all wider than their fields or
\* negative has been encoded and decoded.
C21_Witness ==
  /\ codec.step = "decoded"
  /\ codec.fields = [cmd |-> "POW", B |-> 128, C |-> -128, D |-> 64, E |-> -1]
  /\ codec.out = [A |-> 22, B |-> 0, C |-> 0, D |-> 0, E |-> 127]

\* C24: pack_fields returns the same word for every order of its field
\* list, and the word is always between 0 and 2^32 - 1.
C24_OrderAndRange ==
  /\ codec.step = "repacked" => codec.word = codec.out
  /\ codec.step \in {"packed", "packed_many", "repacked"} =>
       /\ Len(codec.word) <= 32
       /\ \A i \in 1..Len(codec.word) : codec.word[i] \in {0, 1}

\* Three fields, two of them overlapping and one reaching beyond bit 31,
\* have been packed in two different orders.
C24_Witness ==
  /\ codec.step = "repacked"
  /\ codec.fields = << <<-2, 28, 8>>, <<5, 3, 4>>, <<13, 0, 5>> >>
  /\ codec.out = pack_fields(<< <<13, 0, 5>>, <<5, 3, 4>>, <<-2, 28, 8>> >>)
  /\ Len(codec.word) = 32

\* ------------------------------------------------------------------------
\* C22: powers are exact
\* ------------------------------------------------------------------------

\* The binary digits of 3 ** 21 = 10460353203, lowest first (34 digits).
ThreeTo21 ==
  <<1, 1, 0, 0, 1, 1, 0, 1, 0, 1, 0, 0, 1, 0, 1, 0, 0, 0, 1, 1, 1, 1, 1, 0,
    1, 1, 1, 1, 0, 1, 1, 0, 0, 1>>

\* The word of the iteration just done, when it succeeded.
LastWord == trace[Len(trace)].word

JustStepped == phase = "run" /\ trace # <<>>

\* C22: POW stores the exact power op1 ** op2, however large: a result of
\* 2^32 or more is held whole by the register, and by the memory cell a later
\* WRITE_MEM copies it to, not reduced modulo 2^32.
C22_ExactPower ==
  /\ (JustStepped /\ Bits(LastWord, 0, 5) = 22
        /\ Bits(LastWord, 12, 7) # Bits(LastWord, 5, 7)
        /\ Bits(LastWord, 12, 7) # Bits(LastWord, 25, 7)) =>
       LET B   == Bits(LastWord, 5, 7)
           C   == Bits(LastWord, 12, 7)
           D   == Bits(LastWord, 19, 6)
           E   == Bits(LastWord, 25, 7)
           op1 == cell(mem, BitsToNat(Add(regs[E], Val(D))))
           op2 == cell(mem, BitsToNat(regs[B]))
       IN  regs[C] = Power(op1, op2)
  /\ (JustStepped /\ Bits(LastWord, 0, 5) = 15) =>
       cell(mem, Bits(LastWord, 12, 14)) = regs[Bits(LastWord, 5, 7)]
  /\ (rows = ProgramBigPow /\ Len(trace) >= 7 /\ phase \in {"run", "returned"})
       => regs[12] = ThreeTo21
  /\ (rows = ProgramBigPow /\ phase = "returned") => cell(mem, 700) = ThreeTo21

\* 3 ** 21, more than 2^32, has been computed and stored to memory.
C22_Witness ==
  /\ rows = ProgramBigPow
  /\ phase = "returned"
  /\ Len(trace) = 8
  /\ Bits(trace[7].word, 0, 5) = 22
  /\ Len(regs[12]) = 34
  /\ cell(mem, 700) = regs[12]
  /\ cell(mem, 600) = Val(3) /\ cell(mem, 601) = Val(21)

\* ------------------------------------------------------------------------
\* C23: the program counter
\* ------------------------------------------------------------------------

\* The k-th iteration was a WRITE_MEM that stored.
StoredAt(k) ==
  /\ Bits(trace[k].word, 0, 5) = 15
  /\ ~(k = Len(trace) /\ phase = "raised")

\* Every store of the run so far went to the address of the storing
\* instruction or below it.
BackwardStoresOnly ==
  \A k \in 1..Len(trace) :
    StoredAt(k) => Bits(trace[k].word, 12, 14) <= trace[k].addr

\* Once an instruction has been fetched from address i, pc is i + 1,
\* whether it succeeded or failed; and while every store went to the
\* storing instruction's address or below, the words executed and the words
\* still to be executed are the words loaded.
PcAfterFetch ==
  /\ \A k \in 1..Len(trace) : trace[k].addr = k - 1
  /\ trace # <<>> => pc = trace[Len(trace)].addr + 1
  /\ BackwardStoresOnly =>
       /\ \A k \in 1..Len(trace) : trace[k].word = program_words[k]
       /\ phase = "run" =>
            \A a \in pc..(program_len - 1) : cell(mem, a) = program_words[a + 1]

\* C23: pc is incremented by exactly 1 at each fetch, before the instruction
\* executes, so it is i + 1 while the instruction from address i executes and
\* if it fails; pc never decreases; and a WRITE_MEM by the instruction at
\* address i to an address <= i does not change which instructions were or
\* will be executed.
C23_PcDiscipline ==
  /\ []PcAfterFetch
  /\ [][/\ pc' >= pc
        /\ trace' # trace =>
             /\ pc' = pc + 1
             /\ trace' = Append(trace, trace'[Len(trace')])
             /\ trace'[Len(trace')].addr = pc
             /\ trace'[Len(trace')].word = cell(mem, pc)]_vars

\* The instruction at address 1 stored over its own word, and the
\* instruction at address 2 failed: pc is 3.
C23_Witness ==
  /\ phase = "raised"
  /\ Len(trace) = 3
  /\ pc = 3
  /\ stored = {1}
  /\ StoredAt(2) /\ Bits(trace[2].word, 12, 14) = 1
  /\ cell(mem, 1) # program_words[2]
  /\ BackwardStoresOnly

\* ------------------------------------------------------------------------
\* C25: what an instruction leaves alone
\* ------------------------------------------------------------------------

\* The register a word with opcode LOAD_CONST, READ_MEM or POW writes.
DestRegister(w) ==
  IF Bits(w, 0, 5) = 13 THEN Bits(w, 5, 7) ELSE Bits(w, 12, 7)

\* The addresses at which two memories differ.
ChangedCells(mem1, mem2) ==
  {a \in DOMAIN mem1.cells \cup DOMAIN mem2.cells :
     cell(mem1, a) # cell(mem2, a)}

ChangedRegisters(regs1, regs2) ==
  {r \in DOMAIN regs1 \cup DOMAIN regs2 :
     r \notin DOMAIN regs1 \/ r \notin DOMAIN regs2 \/ regs1[r] # regs2[r]}

\* C25: a successful instruction changes at most one cell besides pc.
\* LOAD_CONST, READ_MEM and POW leave memory and every register other than
\* their destination unchanged; WRITE_MEM leaves every register and every
\* cell other than mem[C] unchanged; none changes program_len, the memory
\* size or the register count.
C25_Frame ==
  [][(phase = "run" /\ phase' = "run" /\ trace' # trace) =>
       LET w == cell(mem, pc)
           A == Bits(w, 0, 5)
       IN  /\ A \in {13, 26, 22} =>
                /\ ChangedCells(mem, mem') = {}
                /\ ChangedRegisters(regs, regs') \subseteq {DestRegister(w)}
           /\ A = 15 =>
                /\ ChangedRegisters(regs, regs') = {}
                /\ ChangedCells(mem, mem') \subseteq {Bits(w, 12, 14)}
           /\ Cardinality(ChangedCells(mem, mem'))
                + Cardinality(ChangedRegisters(regs, regs')) <= 1
           /\ program_len' = program_len
           /\ mem'.size = mem.size /\ mem_size' = mem_size
           /\ DOMAIN regs' = DOMAIN regs /\ regs_count' = regs_count]_vars

\* A register was loaded and then stored to a cell that held something
\* else: the register and every other cell are as before the store.
C25_Witness ==
  /\ phase = "run"
  /\ Len(trace) = 2
  /\ Bits(trace[1].word, 0, 5) = 13 /\ Bits(trace[2].word, 0, 5) = 15
  /\ regs[1] = Val(2)
  /\ cell(mem, 1) = Val(2)
  /\ cell(mem, 0) = program_words[1]
  /\ program_words[2] # Val(2)

\* ------------------------------------------------------------------------
\* C27: pc, program_len and the memory size
\* ------------------------------------------------------------------------

\* The program was loaded: the loop has been entered.
Loaded ==
  \/ phase \in {"run", "returned"}
  \/ phase = "raised" /\ trace # <<>>

\* C27: after a successful load, 0 <= pc <= program_len <= memory size at
\* all times, with program_len the number of words of the byte stream; so
\* every fetch reads mem[pc] at an address below the memory size.
C27_PcBounds ==
  Loaded =>
    /\ 0 <= pc /\ pc <= program_len /\ program_len <= mem_size
    /\ 4 * program_len = Len(code_bytes)
    /\ mem.size = mem_size
    /\ \A k \in 1..Len(trace) :
         /\ 0 <= trace[k].addr
         /\ trace[k].addr < program_len
         /\ trace[k].addr < mem.size
    /\ (phase = "run" /\ pc < program_len) => pc < mem.size

\* A program that fills the whole memory has run to its end: pc, program_len
\* and the memory size are equal.
C27_Witness ==
  /\ phase = "returned"
  /\ program_len > 0
  /\ pc = program_len
  /\ program_len = mem_size
  /\ Len(trace) = program_len

\* ------------------------------------------------------------------------
\* C28: bits outside the fields of an opcode
\* ------------------------------------------------------------------------

\* The number of low bits the fields of an opcode take: 23 for LOAD_CONST,
\* 25 for READ_MEM, 26 for WRITE_MEM.
FieldBitsOf(A) == IF A = 13 THEN 23 ELSE IF A = 26 THEN 25 ELSE 26

\* Settings of the bits n..31: all clear, all set, and each one set alone.
HighPatterns(n) ==
  {[i \in (n + 1)..32 |-> 0], [i \in (n + 1)..32 |-> 1]}
  \cup {[i \in (n + 1)..32 |-> IF i = j THEN 1 ELSE 0] : j \in (n + 1)..32}

\* The words that agree with w on the bits of its opcode's fields and carry
\* one of the patterns on the bits above them.
SameFieldsAs(w) ==
  LET n == FieldBitsOf(Bits(w, 0, 5))
  IN  {Norm([i \in 1..32 |-> IF i <= n THEN BitAt(w, i) ELSE h[i]]) :
         h \in HighPatterns(n)}

\* C28: the interpreter ignores the bits of a word that belong to no field
\* of its opcode (23-31 for LOAD_CONST, 25-31 for READ_MEM, 26-31 for
\* WRITE_MEM): the word about to be executed, loaded or written at run
\* time, and every word that differs from it only in those bits, cause the
\* same state change or the same failure.
C28_UnusedBitsIgnored ==
  (phase = "run" /\ pc < program_len
     /\ Bits(cell(mem, pc), 0, 5) \in {13, 26, 15}) =>
    \A v \in SameFieldsAs(cell(mem, pc)) :
      decode_and_execute_one(v, regs, mem)
        = decode_and_execute_one(cell(mem, pc), regs, mem)

\* A LOAD_CONST word with bit 31 set has loaded its constant 1 into
\* register 0, and a WRITE_MEM word with bits 26-31 set is next.
C28_Witness ==
  /\ phase = "run"
  /\ Len(trace) = 1
  /\ Bits(trace[1].word, 0, 5) = 13
  /\ BitAt(trace[1].word, 32) = 1
  /\ regs[0] = Val(1)
  /\ pc < program_len
  /\ Bits(cell(mem, pc), 0, 5) = 15
  /\ Bits(cell(mem, pc), 26, 6) = 63

\* ------------------------------------------------------------------------
\* C26: machine values are non-negative
\* ------------------------------------------------------------------------

\* v is a non-negative integer: binary digits 0 and 1, lowest first, the
\* highest one a 1.
IsNat(v) ==
  /\ DOMAIN v = 1..Len(v)
  /\ \A i \in 1..Len(v) : v[i] \in {0, 1}
  /\ v # <<>> => v[Len(v)] = 1

\* v >= n, for n a size: v is not negative, and has more digits than a
\* size can have or is at least n.
AtLeast(v, n) == IsNat(v) /\ (Len(v) > 31 \/ BitsToNat(v) >= n)

\* The index whose check raised, and the size it was checked against, read
\* off the failing word and the state it left untouched.
FailedIndex ==
  LET w == LastWord
      B == Bits(w, 5, 7)
  IN  CASE err.where \in {"LOAD_CONST: register B", "READ_MEM: register B",
                          "WRITE_MEM: register B", "POW: register B"} ->
             [index |-> Val(B), size |-> regs_count]
        [] err.where \in {"READ_MEM: register C", "POW: register C"} ->
             [index |-> Val(Bits(w, 12, 7)), size |-> regs_count]
        [] err.where = "POW: register E" ->
             [index |-> Val(Bits(w, 25, 7)), size |-> regs_count]
        [] err.where = "READ_MEM" ->
             [index |-> Add(regs[B], Val(Bits(w, 19, 6))), size |-> mem_size]
        [] err.where = "WRITE_MEM" ->
             [index |-> Val(Bits(w, 12, 14)), size |-> mem_size]
        [] err.where = "POW operand1" ->
             [index |-> Add(regs[Bits(w, 25, 7)], Val(Bits(w, 19, 6))),
              size |-> mem_size]
        [] err.where = "POW operand2" ->
             [index |-> regs[B], size |-> mem_size]

\* The memory addresses the instruction at pc computes, as far as its
\* register operands exist: reg[B] + D of READ_MEM, C of WRITE_MEM,
\* reg[E] + D and reg[B] of POW.
NextAddresses ==
  LET w == cell(mem, pc)
      A == Bits(w, 0, 5)
      B == Bits(w, 5, 7)
      D == Bits(w, 19, 6)
      E == Bits(w, 25, 7)
  IN  IF A = 26
      THEN (IF B < regs_count THEN {Add(regs[B], Val(D))} ELSE {})
      ELSE IF A = 15 THEN {Val(Bits(w, 12, 14))}
      ELSE IF A = 22
      THEN (IF E < regs_count THEN {Add(regs[E], Val(D))} ELSE {})
             \cup (IF B < regs_count THEN {regs[B]} ELSE {})
      ELSE {}

\* The base and the exponent the POW at pc reads, when its registers exist
\* and both addresses are cells of the memory.
NextPowOperands ==
  LET w == cell(mem, pc)
      B == Bits(w, 5, 7)
      C == Bits(w, 12, 7)
      E == Bits(w, 25, 7)
  IN  IF Bits(w, 0, 5) = 22 /\ B < regs_count /\ C < regs_count
           /\ E < regs_count
           /\ \A a \in NextAddresses :
                IsNat(a) /\ Len(a) <= 31 /\ BitsToNat(a) < mem_size
      THEN {cell(mem, BitsToNat(a)) : a \in NextAddresses}
      ELSE {}

\* C26: in every state of every run, every register and every memory cell
\* holds a non-negative integer; so the base and the exponent POW reads are
\* never negative, no address an instruction computes is negative, and the
\* index a bounds check refuses is always at or above the size.
C26_NonNegative ==
  phase \in {"run", "returned", "raised"} =>
    /\ \A r \in DOMAIN regs : IsNat(regs[r])
    /\ \A a \in DOMAIN mem.cells : IsNat(mem.cells[a])
    /\ \A k \in 1..Len(program_words) : IsNat(program_words[k])
    /\ (phase = "run" /\ pc < program_len) =>
         /\ \A a \in NextAddresses : IsNat(a)
         /\ \A v \in NextPowOperands : IsNat(v)
    /\ (phase = "raised" /\ trace # <<>>
          /\ err.where \in RegisterChecks \cup AddressChecks) =>
         AtLeast(FailedIndex.index, FailedIndex.size)

\* A word with bit 31 set was loaded and executed, and a second one failed
\* its register check with index 64.
C26_Witness ==
  /\ phase = "raised"
  /\ err.exc = "IndexError"
  /\ err.where = "POW: register E"
  /\ Len(trace) = 2
  /\ BitAt(cell(mem, 0), 32) = 1
  /\ BitAt(LastWord, 32) = 1
  /\ regs[0] = Val(1)
  /\ FailedIndex.index = Val(64)

\* ------------------------------------------------------------------------
\* C2: operands out of range
\* ------------------------------------------------------------------------

\* The register operands and the memory address operand a record names.
RegOperands(rec) ==
  IF rec.cmd \in {"LOAD_CONST", "WRITE_MEM"} THEN {rec.B}
  ELSE IF rec.cmd = "READ_MEM" THEN {rec.B, rec.C}
  ELSE {rec.B, rec.C, rec.E}

AddrOperands(rec) == IF rec.cmd = "WRITE_MEM" THEN {rec.C} ELSE {}

\* Some record names a register operand >= register_count or a memory
\* address operand >= memory_size.
NamesOutOfRange ==
  \E i \in 1..Len(ir) :
    \/ \E r \in RegOperands(ir[i]) : r >= regs_count
    \/ \E a \in AddrOperands(ir[i]) : a >= mem_size

\* The same of the operands as encoded: reduced modulo 2^7 (a register
\* field) and 2^14 (the WRITE_MEM address field).
EncodesOutOfRange ==
  \E i \in 1..Len(ir) :
    \/ \E r \in RegOperands(ir[i]) : r % 128 >= regs_count
    \/ \E a \in AddrOperands(ir[i]) : a % 16384 >= mem_size

\* No store of the run went into a word of the program that was still to be
\* fetched: each went to the storing instruction's own address, below it,
\* or past the program.
NoForwardStore ==
  \A k \in 1..Len(trace) :
    StoredAt(k) =>
      \/ Bits(trace[k].word, 12, 14) <= trace[k].addr
      \/ Bits(trace[k].word, 12, 14) >= program_len

\* The run ended in the failure of a bounds check and handed no state
\* back.  The check raises IndexError; when the address it refuses has more
\* than MaxStrDigits decimal digits, the message of the IndexError cannot
\* be formatted and ValueError is raised in its place.
OutOfBoundsFailure ==
  /\ phase = "raised"
  /\ result = NoResult
  /\ err.where \in RegisterChecks \cup AddressChecks
  /\ AtLeast(FailedIndex.index, FailedIndex.size)
  /\ IF err.where \in AddressChecks
        /\ MoreDigitsThan(FailedIndex.index, MaxStrDigits)
     THEN err.exc = "ValueError"
     ELSE err.exc = "IndexError"

\* C2 as stated: a program naming a register operand >= register_count or
\* a memory address operand >= memory_size ends in an out-of-bounds
\* failure and returns no state.
C2_Original ==
  (Finished /\ NamesOutOfRange) =>
    (phase = "raised" /\ err.exc = "IndexError")

\* C2 amended: a program of at most memory_size rows, in which the encoded
\* field of some register operand (mod 2^7) is >= register_count or of some
\* WRITE_MEM address (mod 2^14) is >= memory_size, and whose run stores
\* into no program word still to be fetched, ends in the failure of a
\* bounds check (IndexError, or ValueError for an address too long to
\* print) and returns no state.
C2_Amended ==
  (Finished /\ EncodesOutOfRange /\ Len(ir) <= mem_size /\ NoForwardStore)
    => OutOfBoundsFailure

\* The program with the huge address: its last row names register 100, and
\* the run ended one row earlier, where READ_MEM's address 2 ** 32768 was
\* refused with ValueError.
C2_Witness ==
  /\ rows = ProgramHugeAddress
  /\ phase = "raised"
  /\ err.exc = "ValueError" /\ err.where = "READ_MEM"
  /\ EncodesOutOfRange /\ Len(ir) <= mem_size /\ NoForwardStore
  /\ Len(trace) = 10
  /\ Len(regs[2]) = 32769
  /\ stored = {1000, 1001}
====
